---- MODULE Spec2Model ----
(***************************************************************************)
(* Model of the tool-server connection layer of misinfo-mcp-agent-google:  *)
(* McpClient (one subprocess and one protocol session) and                 *)
(* McpClientManager (the registry of named configs and clients).           *)
(*                                                                         *)
(* Every asynchronous method is cut at its await points: the synchronous   *)
(* run of code between two awaits is one action.  Subprocess exit/error    *)
(* events, the kill-escalation timer and the passing of time are actions   *)
(* of the environment and may occur at any await point.  Under Spec the    *)
(* caller issues one registry or client operation at a time.               *)
(***************************************************************************)
EXTENDS Integers, Sequences, FiniteSets, TLC

\* Bounds of the model.
MaxClients == 2     \* McpClient objects ever constructed
MaxProcs == 2       \* ChildProcess objects ever spawned

Names == {"factcheck", "web-fetch"}         \* config names
Tool == "check_claim"                       \* the tool a caller asks for
Catalogs == {{}, {Tool}}                    \* answers of tools/list
SpawnOutcomes == {"throw", "nostdio", "enoent", "ok"}
NoName == "-"

VARIABLES
    configs,    \* McpClientManager.configs: the set of registered names
    clients,    \* McpClientManager.clients: name -> client object (0: absent)
    cl,         \* the McpClient objects, in order of construction
    procs,      \* the ChildProcess objects, in order of spawning
    tasks,      \* suspended async calls: one record per pending await
    cur,        \* the operation the caller has in flight
    ev,         \* the last step taken and its outcome
    orchClients,            \* InvestigationOrchestrator.clients: its keys
    investigationHistory,   \* InvestigationOrchestrator.investigationHistory
    inv,        \* the investigate() call in flight
    ret,        \* what the last call on the orchestrator returned or threw
    arg,        \* the argument a helper function is applied to
    out         \* what it returned

\* the connection layer, the orchestrator, a helper function on its own
cvars == <<configs, clients, cl, procs, tasks, cur, ev>>
ovars == <<orchClients, investigationHistory, inv, ret>>
fvars == <<arg, out>>
vars == <<configs, clients, cl, procs, tasks, cur, ev,
          orchClients, investigationHistory, inv, ret, arg, out>>

----------------------------------------------------------------------------
(* Records *)

\* new McpClient(name, timeout)
NewMcpClient(n) ==
    [name |-> n, isConnected |-> FALSE, serverProcess |-> 0,
     transport |-> FALSE, availableTools |-> {}, timers |-> 0]

\* the object spawn() returns; handlers: the 'error'/'exit' listeners of connect
NewProc(c, isAlive, hasHandlers) ==
    [owner |-> c, alive |-> isAlive, sig |-> "none", handlers |-> hasHandlers]

\* ChildProcess.killed: a signal was delivered by kill()
Killed(pr) == pr.sig # "none"

\* the map healthCheck fills: "none" where it has no entry
NoResults == [n \in Names |-> "none"]
Bool(b) == IF b THEN "true" ELSE "false"

\* bg: the call was issued while another registry call was still in flight
Idle == [kind |-> "idle", n |-> NoName, failed |-> {}, results |-> NoResults,
         bg |-> FALSE]
Op(kind, n) == [Idle EXCEPT !.kind = kind, !.n = n]
BgOp(kind, n) == [Op(kind, n) EXCEPT !.bg = TRUE]

\* k: the call a pending await belongs to when that call overlaps the one in
\* cur; Idle for an await of the call in cur
Task(c, p, pc) == [c |-> c, p |-> p, pc |-> pc, elapsed |-> FALSE, k |-> Idle]
TaskOf(k, c, p, pc) == [Task(c, p, pc) EXCEPT !.k = IF k.bg THEN k ELSE Idle]

\* failed: the connect() calls that threw in this step, as <<client, process
\* spawned by that call (0: none)>>.
EvF(op, c, res, failed) ==
    [op |-> op, c |-> c, n |-> NoName, res |-> res, failed |-> failed,
     results |-> NoResults]
Ev(op, c, res) == EvF(op, c, res, {})
\* a step of the environment that runs no listener of a client
EnvEv == Ev("env", 0, "event")

\* The mutable objects a step of McpClient works on.
Heap == [cl |-> cl, procs |-> procs]

----------------------------------------------------------------------------
(* McpClient: the synchronous pieces *)

\* ChildProcess.kill(sig) as cleanup uses it: a live process gets the signal
\* and is marked killed; kill() on an exited or unspawned process does nothing.
Kill(H, p, sig) ==
    IF H.procs[p].alive THEN [H EXCEPT !.procs[p].sig = sig] ELSE H

\* faulty variant: the listener forgets to clear the flag
HandleDisconnection_Noop(H, c) == H

HandleDisconnection(H, c) ==
    IF H.cl[c].isConnected THEN [H EXCEPT !.cl[c].isConnected = FALSE] ELSE H

\* SIGTERM and the 5 s escalation timer, only for a handle not yet killed.
CleanupKills(H, c) ==
    H.cl[c].serverProcess # 0 /\ ~Killed(H.procs[H.cl[c].serverProcess])

\* faulty variant: cleanup resets the fields but never signals the subprocess
Cleanup_NoKill(H, c) ==
    [H EXCEPT !.cl[c].isConnected = FALSE, !.cl[c].serverProcess = 0,
              !.cl[c].transport = FALSE]

Cleanup(H, c) ==
    LET H1 == [H EXCEPT !.cl[c].isConnected = FALSE]
        H2 == IF CleanupKills(H1, c)
              THEN [Kill(H1, H1.cl[c].serverProcess, "TERM")
                      EXCEPT !.cl[c].timers = @ + 1]
              ELSE H1
    IN  [H2 EXCEPT !.cl[c].serverProcess = 0, !.cl[c].transport = FALSE]

\* connect() up to its first await.  procs lists the spawn() calls in order;
\* o is what this one does:
\*   "throw"   spawn throws: its entry never ran and is attached to nothing
\*   "nostdio" a ChildProcess without stdin/stdout: connect throws at once
\*   "enoent"  a ChildProcess that never ran; it will emit 'error'
\*   "ok"      a running subprocess
\* st: "returned" (already connected), "threw" (after cleanup), "pending"
\* (awaiting the handshake race); p: the ChildProcess spawned, 0 if none.
ConnectBegin(H, c, o) ==
    LET p == Len(H.procs) + 1 IN
    IF H.cl[c].isConnected THEN [H |-> H, st |-> "returned", p |-> 0]
    ELSE IF o = "throw" THEN
        [H |-> Cleanup([H EXCEPT !.procs = Append(@, NewProc(c, FALSE, FALSE))],
                       c),
         st |-> "threw", p |-> 0]
    ELSE IF o = "nostdio" THEN
        [H |-> Cleanup([H EXCEPT !.procs = Append(@, NewProc(c, FALSE, FALSE)),
                                 !.cl[c].serverProcess = p], c),
         st |-> "threw", p |-> p]
    ELSE
        [H |-> [H EXCEPT !.procs = Append(@, NewProc(c, o = "ok", TRUE)),
                         !.cl[c].serverProcess = p,
                         !.cl[c].transport = TRUE],
         st |-> "pending", p |-> p]

\* faulty variant: close() always awaits client.close()
CloseAwaits_Always(H, c) == TRUE

\* close() awaits client.close() only with a transport and while connected.
CloseAwaits(H, c) == H.cl[c].transport /\ H.cl[c].isConnected

\* faulty variant: callTool checks for a process handle instead of the flag
CallToolReady_Handle(H, c) ==
    H.cl[c].isConnected \/ H.cl[c].serverProcess # 0

\* callTool's entry check (line 119).
CallToolReady(H, c) == H.cl[c].isConnected

\* faulty variant: callTool does not look the tool up in the catalog
ToolKnown_Always(H, c) == TRUE

\* callTool's catalog check (lines 123-127).
ToolKnown(H, c) == Tool \in H.cl[c].availableTools

\* callTool's catch block (lines 163-172).
CallToolCatch(H, c) ==
    LET p == H.cl[c].serverProcess IN
    IF (p # 0 /\ Killed(H.procs[p])) \/ ~H.cl[c].isConnected
    THEN HandleDisconnection(H, c)
    ELSE H

\* faulty variant: healthCheck reports every connection it pinged as healthy
HealthEntry_AlwaysTrue(isHealthy) == "true"

\* results[name] = isHealthy (McpClientManager.healthCheck, line 71)
HealthEntry(isHealthy) == isHealthy

\* ping's entry check (line 184).
PingReady(H, c) == H.cl[c].isConnected /\ H.cl[c].serverProcess # 0

----------------------------------------------------------------------------
\* no orchestrator has been constructed and no helper is being applied
NoOrchestrator ==
    /\ orchClients = {}
    /\ investigationHistory = <<>>
    /\ inv = "none"
    /\ ret = "none"
    /\ arg = "none"
    /\ out = "none"

Init ==
    /\ configs = {}
    /\ clients = [n \in Names |-> 0]
    /\ cl = <<>>
    /\ procs = <<>>
    /\ tasks = {}
    /\ cur = Idle
    /\ ev = Ev("init", 0, "ok")
    /\ NoOrchestrator

IsIdle == cur.kind = "idle"
\* a step of the connection layer
OnlyConn == UNCHANGED <<ovars, fvars>>
\* the pending awaits of the call in cur
FgTasks == {t \in tasks : ~t.k.bg}
\* the call a pending await belongs to
KOf(t) == IF t.k.bg THEN t.k ELSE cur
\* what a step of call k makes of cur: an overlapping call leaves it alone
Cur(k, x) == IF k.bg THEN cur ELSE x
\* connectAll, closeAll or healthCheck has nothing left to wait for: its
\* continuation is already queued and runs before any I/O event, timer or
\* new request is handled
Urgent == cur.kind \in {"connectAll", "closeAll", "healthCheck"} /\ FgTasks = {}
\* a step the event loop takes from its queue of events
Macrotask == ~Urgent /\ OnlyConn
Registered(n) == clients[n] # 0

----------------------------------------------------------------------------
(* McpClientManager.addServer *)
AddServer(n) ==
    /\ IsIdle
    /\ configs' = configs \cup {n}
    /\ ev' = Ev("addServer", 0, "ok")
    /\ UNCHANGED <<clients, cl, procs, tasks, cur>>

----------------------------------------------------------------------------
(* What the caller of connect() does when connect() settles.  k: the       *)
(* operation in flight; rest: the pending awaits other than the one that   *)
(* just resumed.                                                           *)

\* connect() returned normally on client c.
ConnectReturned(H, c, rest, k, op) ==
    /\ cl' = H.cl /\ procs' = H.procs /\ tasks' = rest
    /\ ev' = Ev(op, c, "connected")
    /\ UNCHANGED configs
    /\ CASE k.kind = "connectAll" ->
              /\ clients' = [clients EXCEPT ![H.cl[c].name] = c]
              /\ cur' = k
         [] k.kind = "connectServer" ->
              /\ clients' = [clients EXCEPT ![k.n] = c]
              /\ cur' = Cur(k, Idle)
         [] OTHER ->   \* McpClient.reconnect, McpClient.connect
              /\ UNCHANGED clients
              /\ cur' = Idle

\* connect() threw on client c, having spawned process p (0: none).
ConnectThrew(H, c, p, rest, k, op) ==
    /\ cl' = H.cl /\ procs' = H.procs /\ tasks' = rest
    /\ ev' = EvF(op, c, "error", {<<c, p>>})
    /\ UNCHANGED <<configs, clients>>
    /\ cur' = Cur(k, IF k.kind = "connectAll"
                     THEN [k EXCEPT !.failed = @ \cup {H.cl[c].name}]
                     ELSE Idle)

\* connect() is suspended at the handshake race.
ConnectPending(H, c, p, rest, k, op) ==
    /\ cl' = H.cl /\ procs' = H.procs
    /\ tasks' = rest \cup {TaskOf(k, c, p, "handshake")}
    /\ ev' = Ev(op, c, "pending")
    /\ cur' = Cur(k, k)
    /\ UNCHANGED <<configs, clients>>

\* call connect() on c and act on how far it gets synchronously
CallConnect(H, c, o, rest, k, op) ==
    LET r == ConnectBegin(H, c, o) IN
    /\ ~H.cl[c].isConnected => Len(H.procs) < MaxProcs
    /\ CASE r.st = "pending"  -> ConnectPending(r.H, c, r.p, rest, k, op)
         [] r.st = "threw"    -> ConnectThrew(r.H, c, r.p, rest, k, op)
         [] r.st = "returned" -> ConnectReturned(r.H, c, rest, k, op)

\* new McpClient(name) followed by connect(), as connectServer does
ConnectFresh(H, n, o, rest, k, op) ==
    /\ Len(H.cl) < MaxClients
    /\ CallConnect([H EXCEPT !.cl = Append(@, NewMcpClient(n))],
                   Len(H.cl) + 1, o, rest, k, op)

\* close() has run cleanup on client c (heap H); what its caller does next.
AfterClose(H, c, o, rest, k, op) ==
    CASE k.kind = "connectServer" -> ConnectFresh(H, k.n, o, rest, k, op)
      [] k.kind = "reconnect" ->            \* McpClient.reconnect: cooldown
            /\ cl' = H.cl /\ procs' = H.procs
            /\ tasks' = rest \cup {TaskOf(k, c, 0, "cooldown")}
            /\ ev' = Ev(op, c, "closed")
            /\ cur' = Cur(k, k)
            /\ UNCHANGED <<configs, clients>>
      [] OTHER ->                           \* closeAll, McpClient.close
            /\ cl' = H.cl /\ procs' = H.procs
            /\ tasks' = rest
            /\ ev' = Ev(op, c, "closed")
            /\ cur' = Cur(k, IF k.kind = "closeAll" THEN k ELSE Idle)
            /\ UNCHANGED <<configs, clients>>

\* close() on client c: suspended at client.close(), or straight to cleanup.
CallClose(c, o, k, op) ==
    IF CloseAwaits(Heap, c)
    THEN /\ tasks' = tasks \cup {TaskOf(k, c, 0, "closing")}
         /\ cur' = Cur(k, k)
         /\ ev' = Ev(op, c, "closing")
         /\ UNCHANGED <<configs, clients, cl, procs>>
    ELSE AfterClose(Cleanup(Heap, c), c, o, tasks, k, op)

----------------------------------------------------------------------------
(* McpClient.connect: the awaits *)

\* client.connect(transport) resolves before the timeout.
HandshakeOk(t) ==
    /\ t.pc = "handshake"
    /\ procs[t.p].alive
    /\ cl' = [cl EXCEPT ![t.c].isConnected = TRUE]
    /\ tasks' = (tasks \ {t}) \cup {[t EXCEPT !.pc = "loadTools"]}
    /\ ev' = Ev("handshake", t.c, "ok")
    /\ UNCHANGED <<configs, clients, procs, cur>>

\* client.connect(transport) rejects, or the connectionTimeout timer fires
\* first: the catch block runs cleanup and rethrows.
HandshakeFail(t, why) ==
    /\ t.pc = "handshake"
    /\ ConnectThrew(Cleanup(Heap, t.c), t.c, t.p, tasks \ {t}, KOf(t), why)

\* loadAvailableTools settles: a catalog, or any failure (caught) -> [].
\* connect() then returns.
\* faulty variant: a failed tools/list aborts the connection
LoadTools_Abort(H, c, answered, catalog) ==
    IF answered THEN [H EXCEPT !.cl[c].availableTools = catalog]
    ELSE Cleanup(H, c)

LoadTools(H, c, answered, catalog) ==
    [H EXCEPT !.cl[c].availableTools = IF answered THEN catalog ELSE {}]

LoadToolsDone(t, answered, catalog) ==
    /\ t.pc = "loadTools"
    /\ answered => procs[t.p].alive
    /\ ConnectReturned(LoadTools(Heap, t.c, answered, catalog),
                       t.c, tasks \ {t}, KOf(t),
                       IF answered THEN "loadTools" ELSE "loadToolsFailed")

\* McpClient.connect called directly on an existing client object
ClientConnect(c, o) ==
    /\ IsIdle
    /\ CallConnect(Heap, c, o, tasks, Op("connect", NoName), "connect")

\* new McpClient(name): a client object that was never connected
ConstructClient(n) ==
    /\ IsIdle
    /\ Len(cl) < MaxClients
    /\ cl' = Append(cl, NewMcpClient(n))
    /\ ev' = Ev("new", Len(cl) + 1, "ok")
    /\ UNCHANGED <<configs, clients, procs, tasks, cur>>

----------------------------------------------------------------------------
(* McpClient.close and McpClient.reconnect *)

ClientClose(c) ==
    /\ IsIdle
    /\ CallClose(c, "ok", Op("close", NoName), "close")  \* no spawn follows

\* McpClient.reconnect called directly: close, cooldown, connect
ClientReconnect(c) ==
    /\ IsIdle
    /\ CallClose(c, "ok", Op("reconnect", NoName), "reconnect")

\* McpClient.close called while a connect() of the same client is suspended
\* at the handshake or at tools/list: close runs on the fields as they are
BgClientClose(c) ==
    /\ \A t \in tasks : ~t.k.bg
    /\ \E t \in tasks : t.c = c /\ t.pc \in {"handshake", "loadTools"}
    /\ CallClose(c, "ok", BgOp("close", NoName), "close")

\* client.close() settles; whether it resolved or threw, finally runs cleanup.
CloseDone(t, o) ==
    /\ t.pc = "closing"
    /\ AfterClose(Cleanup(Heap, t.c), t.c, o, tasks \ {t}, KOf(t),
               "closeDone")

\* the 1 s cooldown of reconnect is over: connect again on the same object
CooldownDone(t, o) ==
    /\ t.pc = "cooldown"
    /\ CallConnect(Heap, t.c, o, tasks \ {t}, KOf(t),
                   "cooldownDone")

----------------------------------------------------------------------------
(* McpClientManager.connectAll *)

RECURSIVE ConnectEach(_, _, _)
\* The synchronous start of every per-config task of connectAll.
ConnectEach(acc, ns, o) ==
    IF ns = {} THEN acc
    ELSE LET n == CHOOSE x \in ns : TRUE
             c == Len(acc.H.cl) + 1
             r == ConnectBegin(
                    [acc.H EXCEPT !.cl = Append(@, NewMcpClient(n))], c, o[n])
             threw == r.st = "threw"
         IN  ConnectEach(
               [H |-> r.H,
                tasks |-> IF threw THEN acc.tasks
                          ELSE acc.tasks \cup {Task(c, r.p, "handshake")},
                failed |-> IF threw THEN acc.failed \cup {n} ELSE acc.failed,
                threw |-> IF threw THEN acc.threw \cup {<<c, r.p>>}
                          ELSE acc.threw],
               ns \ {n}, o)

ConnectAllStart(o) ==
    LET r == ConnectEach([H |-> Heap, tasks |-> {}, failed |-> {},
                          threw |-> {}], configs, o)
    IN
    /\ IsIdle
    /\ Len(cl) + Cardinality(configs) <= MaxClients
    /\ Len(procs) + Cardinality(configs) <= MaxProcs
    /\ cl' = r.H.cl /\ procs' = r.H.procs
    /\ tasks' = tasks \cup r.tasks
    /\ cur' = [Op("connectAll", NoName) EXCEPT !.failed = r.failed]
    /\ ev' = EvF("connectAll", 0, "pending", r.threw)
    /\ UNCHANGED <<configs, clients>>

\* Promise.allSettled resolves; connectAll logs the counts and returns.
ConnectAllReturn ==
    /\ cur.kind = "connectAll"
    /\ FgTasks = {}
    /\ cur' = Idle
    /\ ev' = Ev("connectAll", 0, "returned")
    /\ UNCHANGED <<configs, clients, cl, procs, tasks>>

----------------------------------------------------------------------------
(* McpClientManager.connectServer and reconnectServer *)

\* faulty variant: the missing-config check is dropped
HasConfig_Always(n) == TRUE

\* this.configs.get(name) found a config
HasConfig(n) == n \in configs

NoConfig(op, n) ==
    /\ ev' = [Ev(op, 0, "noConfig") EXCEPT !.n = n]
    /\ UNCHANGED <<configs, clients, cl, procs, tasks, cur>>

ConnectServerStart(n, o) ==
    /\ IsIdle
    /\ IF ~HasConfig(n) THEN NoConfig("connectServer", n)
       ELSE IF Registered(n)
            THEN CallClose(clients[n], o, Op("connectServer", n),
                           "connectServer")
            ELSE ConnectFresh(Heap, n, o, tasks, Op("connectServer", n),
                              "connectServer")

ReconnectServerStart(n, o) ==
    /\ IsIdle
    /\ IF ~HasConfig(n) THEN NoConfig("reconnectServer", n)
       ELSE IF Registered(n)
            THEN CallClose(clients[n], o, Op("reconnect", n),
                           "reconnectServer")
            ELSE ConnectFresh(Heap, n, o, tasks, Op("connectServer", n),
                              "reconnectServer")

\* connectServer(n) called while another registry call is still in flight
\* (nothing in the registry makes a caller wait for it); one such call at a
\* time
BgConnectServerStart(n, o) ==
    /\ ~IsIdle
    /\ \A t \in tasks : ~t.k.bg
    /\ IF ~HasConfig(n) THEN NoConfig("connectServer", n)
       ELSE IF Registered(n)
            THEN CallClose(clients[n], o, BgOp("connectServer", n),
                           "connectServer")
            ELSE ConnectFresh(Heap, n, o, tasks, BgOp("connectServer", n),
                              "connectServer")

----------------------------------------------------------------------------
(* McpClientManager.closeAll *)

RegisteredClients == {clients[n] : n \in Names} \ {0}

RECURSIVE CleanupEach(_, _)
CleanupEach(H, cs) ==
    IF cs = {} THEN H
    ELSE LET c == CHOOSE x \in cs : TRUE
         IN  CleanupEach(Cleanup(H, c), cs \ {c})

\* every close() runs up to its await: clients that skip client.close() are
\* cleaned up at once, the others are suspended.
CloseAllStart ==
    LET waiting == {c \in RegisteredClients : CloseAwaits(Heap, c)}
        H == CleanupEach(Heap, RegisteredClients \ waiting)
    IN
    /\ IsIdle
    /\ cl' = H.cl /\ procs' = H.procs
    /\ tasks' = tasks \cup {Task(c, 0, "closing") : c \in waiting}
    /\ cur' = Op("closeAll", NoName)
    /\ ev' = Ev("closeAll", 0, "pending")
    /\ UNCHANGED <<configs, clients>>

\* faulty variant: closeAll forgets to clear the map
ClearedClients_Kept == clients

\* this.clients.clear() (line 132)
ClearedClients == [n \in Names |-> 0]

\* Promise.allSettled resolves; the map is cleared.
CloseAllReturn ==
    /\ cur.kind = "closeAll"
    /\ FgTasks = {}
    /\ clients' = ClearedClients
    /\ cur' = Idle
    /\ ev' = Ev("closeAll", 0, "returned")
    /\ UNCHANGED <<configs, cl, procs, tasks>>

----------------------------------------------------------------------------
(* McpClient.callTool and McpClientManager.callTool *)

CallToolStart(c, op) ==
    IF ~CallToolReady(Heap, c) THEN
        /\ ev' = Ev(op, c, "Disconnected")
        /\ UNCHANGED <<configs, clients, cl, procs, tasks, cur>>
    ELSE IF ~ToolKnown(Heap, c) THEN
        /\ ev' = Ev(op, c, "ToolNotFound")
        /\ UNCHANGED <<configs, clients, cl, procs, tasks, cur>>
    ELSE
        /\ tasks' = tasks \cup {Task(c, cl[c].serverProcess, "calling")}
        /\ cur' = Op("callTool", NoName)
        /\ ev' = Ev(op, c, "requested")
        /\ UNCHANGED <<configs, clients, cl, procs>>

ClientCallTool(c) ==
    /\ IsIdle
    /\ CallToolStart(c, "callTool")

ManagerCallTool(n) ==
    /\ IsIdle
    /\ IF Registered(n) THEN CallToolStart(clients[n], "callTool")
       ELSE /\ ev' = Ev("callTool", 0, "NotConnected")
            /\ UNCHANGED <<configs, clients, cl, procs, tasks, cur>>

\* The tools/call request settles: r is "result" (a success payload),
\* "isError" (an application-level error reply, thrown inside the try) or
\* "transportError" (the request itself rejects).
CallToolSettle(H, c, r) == IF r = "result" THEN H ELSE CallToolCatch(H, c)

CallToolDone(t, r) ==
    LET H == CallToolSettle(Heap, t.c, r) IN
    /\ t.pc = "calling"
    /\ r # "transportError" => (t.p # 0 /\ procs[t.p].alive)
    /\ cl' = H.cl /\ procs' = H.procs
    /\ tasks' = tasks \ {t}
    /\ cur' = Idle
    /\ ev' = Ev("callToolDone", t.c, r)
    /\ UNCHANGED <<configs, clients>>

\* connectionTimeout ms pass while a request of callTool or ping is
\* outstanding.  Only the handshake is raced against a timer (HandshakeFail);
\* none is armed for these requests, so here time just passes.
TimeoutElapses(t) ==
    /\ t.pc \in {"calling", "pinging"}
    /\ ~t.elapsed
    /\ tasks' = (tasks \ {t}) \cup {[t EXCEPT !.elapsed = TRUE]}
    /\ ev' = EnvEv
    /\ UNCHANGED <<configs, clients, cl, procs, cur>>

----------------------------------------------------------------------------
(* McpClient.ping *)

PingStart(c) ==
    /\ IsIdle
    /\ IF ~PingReady(Heap, c) THEN
            /\ ev' = Ev("ping", c, "false")
            /\ UNCHANGED <<configs, clients, cl, procs, tasks, cur>>
       ELSE
            /\ tasks' = tasks \cup {Task(c, cl[c].serverProcess, "pinging")}
            /\ cur' = Op("ping", NoName)
            /\ ev' = Ev("ping", c, "requested")
            /\ UNCHANGED <<configs, clients, cl, procs>>

\* faulty variant: ping stores the catalog it fetched, as loadAvailableTools does
PingSettle_Reload(H, c, answered, catalog) == LoadTools(H, c, answered, catalog)

\* what ping does to the client when its tools/list settles (lines 188-194)
PingSettle(H, c, answered, catalog) == H

\* ping() returns isHealthy to its caller: healthCheck stores it under the
\* name of the entry its closure iterates (line 71), a direct caller is done
PingDone(t, answered, catalog) ==
    LET H == PingSettle(Heap, t.c, answered, catalog) IN
    /\ t.pc = "pinging"
    /\ answered => procs[t.p].alive
    /\ cl' = H.cl /\ procs' = H.procs
    /\ tasks' = tasks \ {t}
    /\ cur' = IF cur.kind = "healthCheck"
              THEN [cur EXCEPT !.results[cl[t.c].name] =
                                    HealthEntry(Bool(answered))]
              ELSE Idle
    /\ ev' = Ev("pingDone", t.c, IF answered THEN "true" ELSE "false")
    /\ UNCHANGED <<configs, clients>>

----------------------------------------------------------------------------
(* McpClientManager.healthCheck *)

\* Every ping() runs up to its await: a client that fails ping's entry check
\* returns false at once, the others are suspended at their tools/list.
HealthCheckStart ==
    LET ready == {c \in RegisteredClients : PingReady(Heap, c)} IN
    /\ IsIdle
    /\ tasks' = tasks \cup {Task(c, cl[c].serverProcess, "pinging") : c \in ready}
    /\ cur' = [Op("healthCheck", NoName) EXCEPT !.results =
                 [n \in Names |->
                    IF Registered(n) /\ clients[n] \notin ready
                    THEN HealthEntry("false") ELSE "none"]]
    /\ ev' = Ev("healthCheck", 0, "pending")
    /\ UNCHANGED <<configs, clients, cl, procs>>

\* Promise.allSettled resolves; healthCheck returns the map.
HealthCheckReturn ==
    /\ cur.kind = "healthCheck"
    /\ FgTasks = {}
    /\ cur' = Idle
    /\ ev' = [Ev("healthCheck", 0, "returned") EXCEPT !.results = cur.results]
    /\ UNCHANGED <<configs, clients, cl, procs, tasks>>

----------------------------------------------------------------------------
(* The environment: subprocess events and the escalation timer *)

\* the subprocess exits; its 'exit' listener (if connect registered one)
\* runs handleDisconnection on the client that spawned it
ProcExit(p) ==
    LET H1 == [Heap EXCEPT !.procs[p].alive = FALSE]
        H == IF procs[p].handlers THEN HandleDisconnection(H1, procs[p].owner)
             ELSE H1
    IN
    /\ procs[p].alive
    /\ cl' = H.cl /\ procs' = H.procs
    /\ ev' = Ev("exit", procs[p].owner, "event")
    /\ UNCHANGED <<configs, clients, tasks, cur>>

\* the ChildProcess emits 'error' (spawn failed, kill failed, ...); the
\* listener changes something only while its client is connected
ProcError(p) ==
    LET H == HandleDisconnection(Heap, procs[p].owner) IN
    /\ procs[p].handlers
    /\ cl[procs[p].owner].isConnected
    /\ cl' = H.cl /\ procs' = H.procs
    /\ ev' = Ev("error", procs[p].owner, "event")
    /\ UNCHANGED <<configs, clients, tasks, cur>>

\* The setTimeout callback of cleanup (lines 220-225) runs and finds a
\* process to kill.  A callback that finds none (this.serverProcess is null
\* or already killed) changes nothing; since a pending callback may run
\* arbitrarily late, that step is not taken and the callback stays pending.
TimerKills(H, c) ==
    H.cl[c].serverProcess # 0 /\ ~Killed(H.procs[H.cl[c].serverProcess])

TimerFire(c) ==
    LET H == Kill(Heap, cl[c].serverProcess, "KILL") IN
    /\ cl[c].timers > 0
    /\ TimerKills(Heap, c)
    /\ cl' = [H.cl EXCEPT ![c].timers = @ - 1]
    /\ procs' = H.procs
    /\ ev' = EnvEv
    /\ UNCHANGED <<configs, clients, tasks, cur>>

\* The same callback runs and finds nothing to kill: this.serverProcess is
\* null (cleanup cleared it right after setting the timer, lines 228-229)
\* or holds a process already signalled.
TimerLapse(c) ==
    /\ cl[c].timers > 0
    /\ ~TimerKills(Heap, c)
    /\ cl' = [cl EXCEPT ![c].timers = @ - 1]
    /\ ev' = EnvEv
    /\ UNCHANGED <<configs, clients, procs, tasks, cur>>

----------------------------------------------------------------------------
Cl == 1..Len(cl)
Pr == 1..Len(procs)

\* The caller uses McpClient objects directly.
ClientOps ==
    \/ \E c \in Cl, o \in SpawnOutcomes : ClientConnect(c, o) /\ OnlyConn
    \/ \E c \in Cl : ClientClose(c) /\ OnlyConn
    \/ \E c \in Cl : ClientReconnect(c) /\ OnlyConn
    \/ \E c \in Cl : ClientCallTool(c) /\ OnlyConn
    \/ \E c \in Cl : PingStart(c) /\ OnlyConn

\* The caller uses the registry.
RegistryOps ==
    \/ \E n \in Names : AddServer(n) /\ OnlyConn
    \/ \E o \in [configs -> SpawnOutcomes] : ConnectAllStart(o) /\ OnlyConn
    \/ ConnectAllReturn /\ OnlyConn
    \/ \E n \in Names, o \in SpawnOutcomes : ConnectServerStart(n, o) /\ OnlyConn
    \/ \E n \in Names, o \in SpawnOutcomes : ReconnectServerStart(n, o) /\ OnlyConn
    \/ CloseAllStart /\ OnlyConn
    \/ CloseAllReturn /\ OnlyConn
    \/ \E n \in Names : ManagerCallTool(n) /\ OnlyConn
    \/ HealthCheckStart /\ OnlyConn
    \/ HealthCheckReturn /\ OnlyConn

\* A pending await of connect, close, reconnect or callTool settles.
Settles ==
    \/ \E t \in tasks : HandshakeOk(t) /\ Macrotask
    \/ \E t \in tasks, why \in {"handshakeError", "handshakeTimeout"} :
          HandshakeFail(t, why) /\ Macrotask
    \/ \E t \in tasks, answered \in BOOLEAN, catalog \in Catalogs :
          LoadToolsDone(t, answered, catalog) /\ Macrotask
    \/ \E t \in tasks, o \in SpawnOutcomes : CloseDone(t, o) /\ Macrotask
    \/ \E t \in tasks, o \in SpawnOutcomes : CooldownDone(t, o) /\ Macrotask
    \/ \E t \in tasks, r \in {"result", "isError", "transportError"} :
          CallToolDone(t, r) /\ Macrotask

PingSettles ==
    \E t \in tasks, answered \in BOOLEAN, catalog \in Catalogs :
        PingDone(t, answered, catalog) /\ Macrotask

Env ==
    \/ \E t \in tasks : TimeoutElapses(t) /\ Macrotask
    \/ \E p \in Pr : ProcExit(p) /\ Macrotask
    \/ \E p \in Pr : ProcError(p) /\ Macrotask
    \/ \E c \in Cl : TimerFire(c) /\ Macrotask

NextClient == ClientOps \/ Settles \/ PingSettles \/ Env
\* Registry calls that may overlap: connectServer can be called again while
\* a connectServer, reconnectServer, closeAll or callTool is in flight.
\* connectAll is left out here: on its own it already replaces the entry of
\* a live name, so that these behaviours show what overlap alone does.
OverlapOps ==
    \/ \E n \in Names : AddServer(n) /\ OnlyConn
    \/ \E n \in Names, o \in SpawnOutcomes : ConnectServerStart(n, o) /\ OnlyConn
    \/ \E n \in Names, o \in SpawnOutcomes : ReconnectServerStart(n, o) /\ OnlyConn
    \/ \E n \in Names, o \in SpawnOutcomes : BgConnectServerStart(n, o) /\ Macrotask
    \/ CloseAllStart /\ OnlyConn
    \/ CloseAllReturn /\ OnlyConn
    \/ \E n \in Names : ManagerCallTool(n) /\ OnlyConn

NextOverlap == OverlapOps \/ Settles \/ Env
NextRegistry == RegistryOps \/ Settles \/ PingSettles \/ Env
Next ==
    \/ ClientOps \/ RegistryOps \/ Settles \/ PingSettles \/ Env
    \/ \E n \in Names : ConstructClient(n) /\ OnlyConn

\* one McpClient object, just constructed
InitClient ==
    /\ configs = {}
    /\ clients = [n \in Names |-> 0]
    /\ cl \in {<<NewMcpClient(n)>> : n \in Names}
    /\ procs = <<>>
    /\ tasks = {}
    /\ cur = Idle
    /\ ev = Ev("new", 1, "ok")
    /\ NoOrchestrator

\* one McpClient object used directly, one operation at a time
SpecClient == InitClient /\ [][NextClient]_vars
\* the same, with every run of the escalation callback a step of its own,
\* and no callback pending forever: Node runs a timer once its delay is over
TimerRuns == \E c \in Cl : (TimerFire(c) \/ TimerLapse(c)) /\ Macrotask
NextGrace == NextClient \/ \E c \in Cl : TimerLapse(c) /\ Macrotask
\* McpClient with close() calls that overlap a connect() in flight
NextRace == NextClient \/ \E c \in Cl : BgClientClose(c) /\ Macrotask
SpecRace == InitClient /\ [][NextRace]_vars
SpecGrace == InitClient /\ [][NextGrace]_vars /\ WF_vars(TimerRuns)
\* the registry used through its own methods, one operation at a time
SpecRegistry == Init /\ [][NextRegistry]_vars
\* the registry with overlapping calls
SpecOverlap == Init /\ [][NextOverlap]_vars
Spec == Init /\ [][Next]_vars

----------------------------------------------------------------------------
(* InvestigationOrchestrator (src/lib/orchestrator.ts): evidence, timeline *)

MaxCalls == 1       \* investigate() calls in one behaviour
MaxStored == 2      \* investigate() is not called on a store of this size
MaxList == 3        \* length of the evidence lists a helper is tried on

\* Instants.  Now is what new Date() reads while an investigation runs; a
\* tool server may report instants before, at and after it.
Now == 1
Times == {0, 1, 2}

\* the names the orchestrator looks up in its client map
OrchNames == {"factcheck", "web-search", "video-forensics", "reverse-search"}

\* Numbers between 0 and 1 (confidences, probabilities, scores) are counted
\* in units of 1/One.  One is a multiple of 100, so that hundredths are
\* whole, and of 2 * 12, so that the mean of up to four such numbers and
\* the half of a sum of two such means are whole: the divisions of the
\* helpers below are exact.
One == 2400
Pct(n) == (n * One) \div 100

\* a value that may be absent: <<>> or <<v>>.  x || d of JavaScript: d when
\* x is absent or 0
OrDefault(x, d) == IF x = <<>> \/ x[1] = 0 THEN d ELSE x[1]

\* EvidenceItem (lines 37-45): the fields the pipeline reads
EvidenceItem(type, source, content, confidence, timestamp) ==
    [type |-> type, source |-> source, content |-> content,
     confidence |-> confidence, timestamp |-> timestamp]

\* new Date(item.timestamp).getTime() of a well-formed instant
GetTime(item) == item.timestamp

\* faulty variant: an unstable sort, which moves x before its ties
RECURSIVE Insert_Unstable(_, _)
Insert_Unstable(s, x) ==
    IF s = <<>> THEN <<x>>
    ELSE IF GetTime(s[Len(s)]) - GetTime(x) >= 0
         THEN Append(Insert_Unstable(SubSeq(s, 1, Len(s) - 1), x), s[Len(s)])
         ELSE Append(s, x)

\* Array.prototype.sort with the comparator of generateTimeline (lines
\* 610-612): ascending by getTime and stable.  Insert(s, x) puts x after
\* every element that does not compare greater than it.
RECURSIVE Insert(_, _)
Insert(s, x) ==
    IF s = <<>> THEN <<x>>
    ELSE IF GetTime(s[Len(s)]) - GetTime(x) > 0
         THEN Append(Insert(SubSeq(s, 1, Len(s) - 1), x), s[Len(s)])
         ELSE Append(s, x)

RECURSIVE SortByTimestamp(_)
SortByTimestamp(evidence) ==
    IF evidence = <<>> THEN <<>>
    ELSE Insert(SortByTimestamp(SubSeq(evidence, 1, Len(evidence) - 1)),
                evidence[Len(evidence)])

\* the event type of the item at (0-based) index of the sorted list
EventType(item, index) ==
    IF item.type = "fact_check" THEN "fact_check"
    ELSE IF item.type = "reverse_image" /\ index = 0 THEN "first_appearance"
    ELSE IF item.type = "forensic" THEN "modification"
    ELSE "spread"

\* summarizeEvidenceItem (lines 634-649): a prefix chosen by the type, the
\* content (its first 100 characters; contents here are shorter), "..."
SummarizeEvidenceItem(item) ==
    (CASE item.type = "fact_check" -> "Fact-check result: "
       [] item.type = "forensic" -> "Forensic analysis: "
       [] item.type = "web_search" -> "Web evidence: "
       [] item.type = "reverse_image" -> "Similar content found: "
       [] item.type = "archive" -> "Archive entry: "
       [] OTHER -> "") \o item.content \o "..."

\* TimelineEvent built from the item at position i (1-based) of sorted
TimelineEvent(sorted, i) ==
    [timestamp |-> sorted[i].timestamp,
     event_type |-> EventType(sorted[i], i - 1),
     source |-> sorted[i].source,
     description |-> SummarizeEvidenceItem(sorted[i])]

\* generateTimeline(evidence).  sort() sorts the array it is called on and
\* returns that same array: evidence is what the caller's array holds after
\* the call, timeline is the value returned.
GenerateTimeline(evidence) ==
    LET sorted == SortByTimestamp(evidence) IN
    [evidence |-> sorted,
     timeline |-> [i \in 1..Len(sorted) |-> TimelineEvent(sorted, i)]]

----------------------------------------------------------------------------
(* InvestigationOrchestrator: requests, tool replies, results *)

\* InvestigationRequest (lines 3-16): type, whether content.claim is set,
\* and what content.media_url is (absent, an image or video url that the
\* forensic server is asked about, another url), and options.include_forensics
\* (varied where the forensic server could be asked)
Requests ==
    {r \in [type : {"fact_check", "media_analysis", "full_investigation"},
            claim : BOOLEAN,
            media : {"none", "image", "other"},
            include_forensics : BOOLEAN] :
        r.media = "image" \/ r.include_forensics}

\* JSON.stringify(value): the text stands for the value it was made from
JsonStringify(value) == [json |-> value]

\* computeSha256(data) (lines 789-792): the digest stands for the text
ComputeSha256(data) == [sha256 |-> data]

\* signArtifact(artifact) (lines 794-798): the HMAC stands for the text
SignArtifact(artifact) == [hmac |-> artifact]

\* What a callTool of the pipeline can resolve to (or else it throws).
\* check_claim: a reply without anything, and one with an evidence item, a
\* verdict, a confidence and the server's own signedArtifact
FactReplies ==
    {[evidence |-> <<>>, verdict |-> <<>>, confidence |-> <<>>,
      signedArtifact |-> <<>>],
     [evidence |-> <<[source |-> "snopes", content |-> "rated false",
                      confidence |-> Pct(90), timestamp |-> 2]>>,
      verdict |-> <<"FALSE">>, confidence |-> <<Pct(90)>>,
      signedArtifact |->
        <<[id |-> <<"remote">>,
           sha256 |-> <<ComputeSha256(JsonStringify([verdict |-> "FALSE"]))>>,
           signature |-> <<SignArtifact(JsonStringify([verdict |-> "FALSE"]))>>
          ]>>]}
\* search: the results array (url, snippet, relevance_score or none); the
\* server is free in what it sends as a score
WebReplies ==
    {<<>>,
     <<[url |-> "news", snippet |-> "report", relevance_score |-> <<>>]>>,
     <<[url |-> "news", snippet |-> "report",
        relevance_score |-> <<Pct(150)>>]>>}
\* forensicAnalysis: null initially, result[0] of analyze_video /
\* analyze_image afterwards (undefined, or an analysis with its
\* tampering_probability)
NullForensic == [kind |-> "null", tampering_probability |-> 0]
UndefinedForensic == [kind |-> "undefined", tampering_probability |-> 0]
Analysis(p) == [kind |-> "analysis", tampering_probability |-> p]
ForensicReplies == {UndefinedForensic, Analysis(Pct(80))}
\* reverse_search: the matches array (source_url, first_seen or none,
\* similarity_score or none)
ReverseReplies ==
    {<<>>, <<[source_url |-> "blog", first_seen |-> <<0>>,
              similarity_score |-> <<>>]>>}

\* ids: the generated investigation id n, and `${id}-media`, `${id}-fact`
IdOf(n, stage) == <<n, IF stage = "single" THEN "" ELSE "-" \o stage>>

\* no investigate() call is in flight; calls: how many were made.
\* factReply: the local factCheckResult, <<>> or <<reply of check_claim>>.
\* failures: the tool calls of this investigation that threw; gathered:
\* every item pushed by it, in the order of the pushes; before: the history
\* when investigate() was called.
IdleInv(calls) ==
    [pc |-> "idle", calls |-> calls, req |-> "none", stage |-> "single",
     evidence |-> <<>>, forensic |-> NullForensic, mediaResult |-> <<>>,
     factResult |-> <<>>, factReply |-> <<>>, failures |-> {},
     gathered |-> <<>>, before |-> <<>>]

\* The orchestrator state a step of the pipeline works on.
OrchState == [inv |-> inv, hist |-> investigationHistory, ret |-> ret]

\* this.investigationHistory.set(id, result)
HistorySet(hist, id, result) ==
    [x \in DOMAIN hist \cup {id} |-> IF x = id THEN result ELSE hist[x]]

\* mediaResult, factResult and the value returned are <<>> (null, nothing)
\* or <<result>>.
\* investigate() rethrows what the pipeline threw (lines 110-113)
Fail(S, cause) ==
    [S EXCEPT !.inv = IdleInv(S.inv.calls),
              !.ret = [op |-> "investigate", status |-> "failed",
                       cause |-> cause, value |-> <<>>,
                       req |-> S.inv.req,
                       failures |-> S.inv.failures \cup {cause},
                       gathered |-> S.inv.gathered, asked |-> <<>>,
                       before |-> S.inv.before]]

\* investigate() returns the result of the pipeline
Return(S, result) ==
    [S EXCEPT !.inv = IdleInv(S.inv.calls),
              !.ret = [op |-> "investigate", status |-> "returned",
                       cause |-> "none", value |-> <<result>>,
                       req |-> S.inv.req,
                       failures |-> S.inv.failures,
                       gathered |-> S.inv.gathered, asked |-> <<>>,
                       before |-> S.inv.before]]

\* InvestigationResult: the fields that depend on the evidence gathered
Result(id, verdict, confidence, chain, timeline, forensic, artifact) ==
    [id |-> id, verdict |-> verdict, confidence |-> confidence,
     evidence_chain |-> chain, timeline |-> timeline,
     forensic_analysis |-> forensic, signed_artifact |-> artifact]

\* signed_artifact: id, sha256 and signature, each <<>> when the object has
\* no such property
NoArtifact == [id |-> <<>>, sha256 |-> <<>>, signature |-> <<>>]

\* "Create signed artifact" (lines 326-342, 416-432)
SignedArtifact(artifactData) ==
    [id |-> <<"generated">>,
     sha256 |-> <<ComputeSha256(artifactData)>>,
     signature |-> <<SignArtifact(artifactData)>>]

\* computeSha256(item.content + item.source): the digest stands for the
\* string it was computed from
ContentHash(item) == item.content \o item.source

\* deduplicateEvidence (lines 544-552): keep the first item of every hash
RECURSIVE DeduplicateEvidence(_)
DeduplicateEvidence(evidence) ==
    IF evidence = <<>> THEN <<>>
    ELSE LET front == SubSeq(evidence, 1, Len(evidence) - 1)
             last == evidence[Len(evidence)]
         IN  IF \E i \in 1..Len(front) :
                    ContentHash(front[i]) = ContentHash(last)
             THEN DeduplicateEvidence(front)
             ELSE Append(DeduplicateEvidence(front), last)

----------------------------------------------------------------------------
(* InvestigationOrchestrator: verdict and confidence *)

\* reduce((sum, x) => sum + x, 0) over a list of numbers
RECURSIVE SumSeq(_)
SumSeq(numbers) ==
    IF numbers = <<>> THEN 0
    ELSE SumSeq(SubSeq(numbers, 1, Len(numbers) - 1)) + numbers[Len(numbers)]

\* synthesizeVerdict (lines 469-482).  factCheckResult: <<>> (null) or
\* <<reply of check_claim>>
SynthesizeVerdict(forensicResult, factCheckResult) ==
    IF factCheckResult # <<>> /\ factCheckResult[1].verdict # <<>>
    THEN factCheckResult[1].verdict[1]
    ELSE IF forensicResult.kind = "analysis"
    THEN IF forensicResult.tampering_probability > Pct(70) THEN "FALSE"
         ELSE IF forensicResult.tampering_probability > Pct(30) THEN "MIXED"
         ELSE "UNVERIFIED"
    ELSE "UNVERIFIED"

\* calculateOverallConfidence (lines 498-509)
CalculateOverallConfidence(evidence, forensicResult) ==
    IF evidence = <<>> THEN Pct(50)
    ELSE LET avgEvidenceConfidence ==
                 SumSeq([i \in DOMAIN evidence |-> evidence[i].confidence])
                     \div Len(evidence)
             forensicConfidence ==
                 One - OrDefault(<<forensicResult.tampering_probability>>,
                                 Pct(50))
         IN  IF forensicResult.kind = "analysis"
             THEN (avgEvidenceConfidence + forensicConfidence) \div 2
             ELSE avgEvidenceConfidence

\* synthesizeCombinedVerdict (lines 484-496); the results are <<>> or
\* <<result>>
SynthesizeCombinedVerdict(mediaResult, factCheckResult) ==
    LET verdicts == {r[1].verdict : r \in {mediaResult, factCheckResult} \ {<<>>}}
        length == Len(mediaResult) + Len(factCheckResult)
    IN  IF "FALSE" \in verdicts THEN "FALSE"
        ELSE IF "MIXED" \in verdicts THEN "MIXED"
        ELSE IF "TRUE" \in verdicts /\ length = 1 THEN "TRUE"
        ELSE IF "TRUE" \in verdicts /\ "UNVERIFIED" \in verdicts THEN "MIXED"
        ELSE "UNVERIFIED"

\* calculateCombinedConfidence (lines 511-528); a result always has a
\* confidence, so the list is empty only when both results are null
CalculateCombinedConfidence(mediaResult, factCheckResult, evidence) ==
    LET confidences == [i \in 1..Len(mediaResult \o factCheckResult) |->
                            (mediaResult \o factCheckResult)[i].confidence]
    IN  IF confidences = <<>>
        THEN IF evidence # <<>>
             THEN SumSeq([i \in DOMAIN evidence |-> evidence[i].confidence])
                      \div Len(evidence)
             ELSE Pct(50)
        ELSE SumSeq(confidences) \div Len(confidences)

----------------------------------------------------------------------------
(* InvestigationOrchestrator: the pipelines, cut at their callTool awaits *)

\* evidence.push of one item per element of a reply
FactItems(reply) ==
    [i \in 1..Len(reply.evidence) |->
        EvidenceItem("fact_check", reply.evidence[i].source,
                     reply.evidence[i].content, reply.evidence[i].confidence,
                     reply.evidence[i].timestamp)]
WebItems(reply) ==
    [i \in 1..Len(reply) |->
        EvidenceItem("web_search", reply[i].url, reply[i].snippet,
                     OrDefault(reply[i].relevance_score, Pct(70)), Now)]
ReverseItems(reply) ==
    [i \in 1..Len(reply) |->
        EvidenceItem("reverse_image", reply[i].source_url, "similar image",
                     OrDefault(reply[i].similarity_score, Pct(70)),
                     IF reply[i].first_seen = <<>> THEN Now
                     ELSE reply[i].first_seen[1])]
\* confidence: 1 - (tampering_probability || 0)
ForensicItem(forensicAnalysis) ==
    EvidenceItem("forensic", "forensic_analysis", "tampering",
                 One - forensicAnalysis.tampering_probability, Now)

\* evidence.push(item) for every item of items, in order
Push(S, items) ==
    [S EXCEPT !.inv.evidence = @ \o items, !.inv.gathered = @ \o items]

\* performFullInvestigation from "Merge results" on (lines 392-450)
FullMerge(S) ==
    LET combined == (IF S.inv.mediaResult = <<>> THEN <<>>
                     ELSE S.inv.mediaResult[1].evidence_chain)
                    \o (IF S.inv.factResult = <<>> THEN <<>>
                        ELSE S.inv.factResult[1].evidence_chain)
        uniqueEvidence == DeduplicateEvidence(combined)
        tl == GenerateTimeline(uniqueEvidence)
        id == IdOf(S.inv.calls, "single")
        mediaAnalysis == IF S.inv.mediaResult = <<>> THEN UndefinedForensic
                         ELSE S.inv.mediaResult[1].forensic_analysis
        artifactData ==
            JsonStringify([claim |-> S.inv.req.claim,
                           media_url |-> S.inv.req.media,
                           mediaAnalysis |-> mediaAnalysis,
                           factCheckAnalysis |-> S.inv.factResult,
                           evidence |-> tl.evidence,
                           timestamp |-> Now])
        result == Result(id,
                         SynthesizeCombinedVerdict(S.inv.mediaResult,
                                                   S.inv.factResult),
                         CalculateCombinedConfidence(S.inv.mediaResult,
                                                     S.inv.factResult,
                                                     uniqueEvidence),
                         tl.evidence, tl.timeline, mediaAnalysis,
                         SignedArtifact(artifactData))
    IN  Return([S EXCEPT !.hist = HistorySet(@, id, result)], result)

\* performFactCheck from "Step 3: Generate timeline" on (lines 180-212)
FactCheckFinish(S) ==
    LET tl == GenerateTimeline(S.inv.evidence)
        id == IdOf(S.inv.calls, S.inv.stage)
        factCheckResult == S.inv.factReply[1]
        result == Result(id,
                         IF factCheckResult.verdict = <<>> THEN "UNVERIFIED"
                         ELSE factCheckResult.verdict[1],
                         OrDefault(factCheckResult.confidence, Pct(50)),
                         tl.evidence, tl.timeline, UndefinedForensic,
                         IF factCheckResult.signedArtifact = <<>>
                         THEN NoArtifact
                         ELSE factCheckResult.signedArtifact[1])
        S1 == [S EXCEPT !.hist = HistorySet(@, id, result)]
    IN  IF S.inv.stage = "fact"
        THEN FullMerge([S1 EXCEPT !.inv.factResult = <<result>>])
        ELSE Return(S1, result)

\* the search call settles (lines 157-177): a failure is caught
WebCallDone(S, threw, reply) ==
    FactCheckFinish(
        IF threw THEN [S EXCEPT !.inv.failures = @ \cup {"search"}]
        ELSE Push(S, WebItems(reply)))

\* the check_claim call of performFactCheck settles (lines 130-154); it is
\* awaited outside any try block
FactCallDone(S, threw, reply) ==
    IF threw THEN Fail(S, "check_claim")
    ELSE LET S1 == Push([S EXCEPT !.inv.factReply = <<reply>>],
                        FactItems(reply))
         IN
         IF "web-search" \in orchClients
         THEN [S1 EXCEPT !.inv.pc = "webCall"]
         ELSE FactCheckFinish(S1)

\* performFactCheck up to its first await (lines 116-130)
FactCheckBegin(S) ==
    IF ~S.inv.req.claim THEN Fail(S, "claimRequired")
    ELSE IF "factcheck" \notin orchClients THEN Fail(S, "factcheckUnavailable")
    ELSE [S EXCEPT !.inv.pc = "factCall", !.inv.evidence = <<>>,
                   !.inv.factReply = <<>>]

\* performMediaAnalysis from "Determine overall verdict" on (lines 315-360);
\* as the media stage of a full investigation it is followed by the fact
\* check stage (lines 382-390)
MediaFinish(S) ==
    LET tl == GenerateTimeline(S.inv.evidence)
        id == IdOf(S.inv.calls, S.inv.stage)
        artifactData ==
            JsonStringify([media_url |-> S.inv.req.media,
                           claim |-> S.inv.req.claim,
                           forensicAnalysis |-> S.inv.forensic,
                           factCheckResult |-> S.inv.factReply,
                           evidence |-> tl.evidence,
                           timestamp |-> Now])
        result == Result(id,
                         SynthesizeVerdict(S.inv.forensic, S.inv.factReply),
                         CalculateOverallConfidence(S.inv.evidence,
                                                    S.inv.forensic),
                         tl.evidence, tl.timeline, S.inv.forensic,
                         SignedArtifact(artifactData))
        S1 == [S EXCEPT !.hist = HistorySet(@, id, result)]
        S2 == [S1 EXCEPT !.inv.mediaResult = <<result>>, !.inv.stage = "fact"]
    IN  IF S.inv.stage = "media"
        THEN IF S.inv.req.claim THEN FactCheckBegin(S2) ELSE FullMerge(S2)
        ELSE Return(S1, result)

\* the check_claim call of performMediaAnalysis settles (lines 293-311); it
\* too is awaited outside any try block
MediaFactCallDone(S, threw, reply) ==
    IF threw THEN Fail(S, "check_claim")
    ELSE MediaFinish(Push([S EXCEPT !.inv.factReply = <<reply>>],
                          FactItems(reply)))

\* "Step 3: If claim provided, also fact-check it" (lines 287-293)
MediaFactBegin(S) ==
    IF S.inv.req.claim /\ "factcheck" \in orchClients
    THEN [S EXCEPT !.inv.pc = "mediaFactCall"]
    ELSE MediaFinish(S)

\* faulty variant: the failure of reverse_search is not caught
ReverseCallDone_Uncaught(S, threw, reply) ==
    IF threw THEN Fail(S, "reverse_search")
    ELSE MediaFactBegin(Push(S, ReverseItems(reply)))

\* the reverse_search call settles (lines 265-284): a failure is caught
ReverseCallDone(S, threw, reply) ==
    MediaFactBegin(
        IF threw
        THEN [S EXCEPT !.inv.failures = @ \cup {"reverse_search"}]
        ELSE Push(S, ReverseItems(reply)))

\* "Step 2: Reverse search for media" (lines 260-265)
ReverseBegin(S) ==
    IF "reverse-search" \in orchClients
    THEN [S EXCEPT !.inv.pc = "reverseCall"]
    ELSE MediaFactBegin(S)

\* the analyze_video / analyze_image call settles (lines 231-257): a
\* failure is caught and leaves forensicAnalysis as it was, null
ForensicCallDone(S, threw, reply) ==
    ReverseBegin(
        IF threw
        THEN [S EXCEPT !.inv.failures = @ \cup {"forensic"}]
        ELSE IF reply.kind = "undefined"
        THEN [S EXCEPT !.inv.forensic = reply]
        ELSE Push([S EXCEPT !.inv.forensic = reply], <<ForensicItem(reply)>>))

\* performMediaAnalysis up to its first await (lines 214-231)
MediaBegin(S) ==
    LET S1 == [S EXCEPT !.inv.evidence = <<>>,
                        !.inv.forensic = NullForensic,
                        !.inv.factReply = <<>>] IN
    IF S.inv.req.media = "none" THEN Fail(S, "mediaRequired")
    ELSE IF "video-forensics" \in orchClients
            /\ S.inv.req.media = "image"
         THEN [S1 EXCEPT !.inv.pc = "forensicCall"]
         ELSE ReverseBegin(S1)

\* performFullInvestigation up to its first await (lines 362-390)
FullBegin(S) ==
    IF ~S.inv.req.claim /\ S.inv.req.media = "none"
    THEN Fail(S, "claimOrMediaRequired")
    ELSE IF S.inv.req.media # "none"
         THEN MediaBegin([S EXCEPT !.inv.stage = "media"])
         ELSE FactCheckBegin([S EXCEPT !.inv.stage = "fact"])

----------------------------------------------------------------------------
(* InvestigationOrchestrator: the actions *)

\* one step of the orchestrator, from OrchState to S
OrchStep(S) ==
    /\ inv' = S.inv
    /\ investigationHistory' = S.hist
    /\ ret' = S.ret
    /\ UNCHANGED <<orchClients, cvars, fvars>>

\* a reply matters only when the call did not throw
Outcomes(replies) ==
    {<<TRUE, CHOOSE r \in replies : TRUE>>} \cup {<<FALSE, r>> : r \in replies}

\* the ids a caller may ask for: those of the stored investigations and
\* one that no investigation has
Ids == DOMAIN investigationHistory \cup {IdOf(0, "single")}

\* the outcome of a call of a public method: asked is <<id>> for the methods
\* that take an id
NoValue(op, status, cause) ==
    [op |-> op, status |-> status, cause |-> cause, value |-> <<>>,
     req |-> "none", failures |-> {}, gathered |-> <<>>, asked |-> <<>>,
     before |-> investigationHistory]

\* investigate(request) up to its first await (lines 95-109)
Investigate(req) ==
    LET S == [OrchState EXCEPT
                !.inv = [IdleInv(inv.calls + 1) EXCEPT
                           !.pc = "running", !.req = req,
                           !.before = investigationHistory],
                !.ret = [NoValue("investigate", "pending", "none") EXCEPT
                           !.req = req]]
    IN
    /\ inv.pc = "idle"
    /\ inv.calls < MaxCalls
    /\ Cardinality(DOMAIN investigationHistory) < MaxStored
    /\ OrchStep(CASE req.type = "fact_check" -> FactCheckBegin(S)
                  [] req.type = "media_analysis" -> MediaBegin(S)
                  [] req.type = "full_investigation" -> FullBegin(S))

FactCallSettles(threw, reply) ==
    /\ inv.pc = "factCall"
    /\ OrchStep(FactCallDone(OrchState, threw, reply))

WebCallSettles(threw, reply) ==
    /\ inv.pc = "webCall"
    /\ OrchStep(WebCallDone(OrchState, threw, reply))

ForensicCallSettles(threw, reply) ==
    /\ inv.pc = "forensicCall"
    /\ OrchStep(ForensicCallDone(OrchState, threw, reply))

ReverseCallSettles(threw, reply) ==
    /\ inv.pc = "reverseCall"
    /\ OrchStep(ReverseCallDone(OrchState, threw, reply))

MediaFactCallSettles(threw, reply) ==
    /\ inv.pc = "mediaFactCall"
    /\ OrchStep(MediaFactCallDone(OrchState, threw, reply))

\* getInvestigation(id) (lines 801-803)
GetInvestigation(id) ==
    /\ inv.pc = "idle"
    /\ ret' = IF id \in DOMAIN investigationHistory
              THEN [NoValue("get", "returned", "none") EXCEPT
                      !.asked = <<id>>,
                      !.value = <<investigationHistory[id]>>]
              ELSE [NoValue("get", "returned", "none") EXCEPT
                      !.asked = <<id>>]
    /\ UNCHANGED <<orchClients, investigationHistory, inv, cvars, fvars>>

\* listInvestigations() (lines 805-807)
ListInvestigations ==
    /\ inv.pc = "idle"
    /\ ret' = [NoValue("list", "returned", "none") EXCEPT
                 !.value = <<DOMAIN investigationHistory>>]
    /\ UNCHANGED <<orchClients, investigationHistory, inv, cvars, fvars>>

\* the object exportInvestigation returns (lines 815-823)
ExportOf(investigation) ==
    [investigation |-> investigation,
     verification |->
        [signature |-> investigation.signed_artifact.signature,
         hash |-> investigation.signed_artifact.sha256]]

\* faulty variant: an unknown id gives an empty export instead of an error
ExportInvestigation_Empty(id) ==
    /\ inv.pc = "idle"
    /\ ret' = IF id \in DOMAIN investigationHistory
              THEN [NoValue("export", "returned", "none") EXCEPT
                      !.asked = <<id>>,
                      !.value = <<ExportOf(investigationHistory[id])>>]
              ELSE [NoValue("export", "returned", "none") EXCEPT
                      !.asked = <<id>>]
    /\ UNCHANGED <<orchClients, investigationHistory, inv, cvars, fvars>>

\* exportInvestigation(id) (lines 809-824)
ExportInvestigation(id) ==
    /\ inv.pc = "idle"
    /\ ret' = IF id \in DOMAIN investigationHistory
              THEN [NoValue("export", "returned", "none") EXCEPT
                      !.asked = <<id>>,
                      !.value = <<ExportOf(investigationHistory[id])>>]
              ELSE [NoValue("export", "failed", "notFound") EXCEPT
                      !.asked = <<id>>]
    /\ UNCHANGED <<orchClients, investigationHistory, inv, cvars, fvars>>

NextOrch ==
    \/ \E req \in Requests : Investigate(req)
    \/ \E o \in Outcomes(FactReplies) : FactCallSettles(o[1], o[2])
    \/ \E o \in Outcomes(WebReplies) : WebCallSettles(o[1], o[2])
    \/ \E o \in Outcomes(ForensicReplies) : ForensicCallSettles(o[1], o[2])
    \/ \E o \in Outcomes(ReverseReplies) : ReverseCallSettles(o[1], o[2])
    \/ \E o \in Outcomes(FactReplies) : MediaFactCallSettles(o[1], o[2])
    \/ \E id \in Ids : GetInvestigation(id)
    \/ ListInvestigations
    \/ \E id \in Ids : ExportInvestigation(id)

\* An orchestrator whose client map holds the names that connected
\* (initializeClients, lines 82-93), with an empty history.
InitOrch ==
    /\ configs = {}
    /\ clients = [n \in Names |-> 0]
    /\ cl = <<>>
    /\ procs = <<>>
    /\ tasks = {}
    /\ cur = Idle
    /\ ev = Ev("init", 0, "ok")
    /\ orchClients \in SUBSET OrchNames
    /\ investigationHistory = <<>>
    /\ inv = IdleInv(0)
    /\ ret = NoValue("new", "returned", "none")
    /\ arg = "none"
    /\ out = "none"

\* the orchestrator, one investigate() call at a time
SpecOrch == InitOrch /\ [][NextOrch]_vars

----------------------------------------------------------------------------
(* generateTimeline as a function of its argument *)

\* the items the evidence lists are made of: two types, two sources, so
\* that items of one timestamp can be told apart
EvidencePool ==
    {EvidenceItem(type, source, "seen", Pct(70), t) :
        type \in {"forensic", "reverse_image"}, source \in {"a", "b"},
        t \in Times}

EvidenceLists == UNION {[1..n -> EvidencePool] : n \in 0..MaxList}

\* out: <<>> before the call, <<value returned>> after it
CallGenerateTimeline ==
    /\ out = <<>>
    /\ out' = <<GenerateTimeline(arg).timeline>>
    /\ UNCHANGED <<arg, cvars, ovars>>

InitTimeline ==
    /\ configs = {}
    /\ clients = [n \in Names |-> 0]
    /\ cl = <<>>
    /\ procs = <<>>
    /\ tasks = {}
    /\ cur = Idle
    /\ ev = Ev("init", 0, "ok")
    /\ orchClients = {}
    /\ investigationHistory = <<>>
    /\ inv = IdleInv(0)
    /\ ret = NoValue("new", "returned", "none")
    /\ arg \in EvidenceLists
    /\ out = <<>>

NextTimeline == CallGenerateTimeline

SpecTimeline == InitTimeline /\ [][NextTimeline]_vars

----------------------------------------------------------------------------
(* deduplicateEvidence as a function of its argument *)

\* items whose contents and sources are short strings, some of which give
\* one concatenation from different pairs; the timestamp tells items of one
\* pair apart
DedupPool ==
    {EvidenceItem("web_search", source, content, Pct(70), t) :
        source \in {"c", "bc"}, content \in {"a", "ab"}, t \in {0, 1}}

DedupLists == UNION {[1..n -> DedupPool] : n \in 0..MaxList}

CallDeduplicateEvidence ==
    /\ out = <<>>
    /\ out' = <<DeduplicateEvidence(arg)>>
    /\ UNCHANGED <<arg, cvars, ovars>>

InitDedup ==
    /\ configs = {}
    /\ clients = [n \in Names |-> 0]
    /\ cl = <<>>
    /\ procs = <<>>
    /\ tasks = {}
    /\ cur = Idle
    /\ ev = Ev("init", 0, "ok")
    /\ orchClients = {}
    /\ investigationHistory = <<>>
    /\ inv = IdleInv(0)
    /\ ret = NoValue("new", "returned", "none")
    /\ arg \in DedupLists
    /\ out = <<>>

NextDedup == CallDeduplicateEvidence

SpecDedup == InitDedup /\ [][NextDedup]_vars

----------------------------------------------------------------------------
(* verdict and confidence as functions of evidence and analyses *)

\* fact_check items that say false or true with confidence 0 or 0.9, the
\* forensic items of tampering probabilities 0.8 and 0.5
VerdictPool ==
    {EvidenceItem("fact_check", "snopes", content, c, 0) :
        content \in {"rated false", "rated true"}, c \in {0, Pct(90)}}
    \cup {ForensicItem(Analysis(Pct(80))), ForensicItem(Analysis(Pct(50)))}

\* the arguments performMediaAnalysis can pass at lines 316-317: the
\* evidence starts with the item of the forensic analysis when there is
\* one and has no other forensic item; it has fact_check items only when
\* check_claim replied
VerdictArgs ==
    {a \in [evidence : UNION {[1..n -> VerdictPool] : n \in 0..MaxList},
            forensicAnalysis :
                {NullForensic, Analysis(Pct(80)), Analysis(Pct(50))},
            factCheckResult :
                {<<>>, <<[verdict |-> <<>>]>>, <<[verdict |-> <<"TRUE">>]>>}] :
        LET forensics == {i \in DOMAIN a.evidence :
                             a.evidence[i].type = "forensic"}
        IN  /\ IF a.forensicAnalysis.kind = "analysis"
               THEN /\ forensics = {1}
                    /\ a.evidence[1] = ForensicItem(a.forensicAnalysis)
               ELSE forensics = {}
            /\ a.factCheckResult = <<>> => forensics = DOMAIN a.evidence}

\* verdict and confidence as performMediaAnalysis computes them
CallSynthesizeVerdict ==
    /\ out = <<>>
    /\ out' = <<[verdict |->
                    SynthesizeVerdict(arg.forensicAnalysis,
                                      arg.factCheckResult),
                 confidence |->
                    CalculateOverallConfidence(arg.evidence,
                                               arg.forensicAnalysis)]>>
    /\ UNCHANGED <<arg, cvars, ovars>>

InitVerdict ==
    /\ configs = {}
    /\ clients = [n \in Names |-> 0]
    /\ cl = <<>>
    /\ procs = <<>>
    /\ tasks = {}
    /\ cur = Idle
    /\ ev = Ev("init", 0, "ok")
    /\ orchClients = {}
    /\ investigationHistory = <<>>
    /\ inv = IdleInv(0)
    /\ ret = NoValue("new", "returned", "none")
    /\ arg \in VerdictArgs
    /\ out = <<>>

NextVerdict == CallSynthesizeVerdict

SpecVerdict == InitVerdict /\ [][NextVerdict]_vars

----------------------------------------------------------------------------
(* handleInvestigation (src/app/api/agent/route.ts): one POST request *)

\* An error message is the list of its parts; message.includes(part) of
\* the handler asks for one of them.
Includes(message, part) == \E i \in DOMAIN message : message[i] = part

\* what investigate() can reject with: the errors of the pipelines and of
\* callTool, among them "Tool call error: <text>" (part_001, line 146)
\* whose text is the tool server's
PipelineErrors ==
    {<<"FactCheck MCP server", "not available">>,
     <<"MCP client factcheck is", "not connected">>,
     <<"Tool check_claim", "not found", "in factcheck">>,
     <<"Tool call error:", "upstream", "timeout">>}

TimeoutError == <<"Investigation", "timeout", "- analysis took too long">>

\* request bodies: type absent, unknown or valid; content present or not,
\* with or without claim and media_url
Bodies ==
    [type : {"", "other", "fact_check", "media_analysis",
             "full_investigation"},
     content : BOOLEAN, claim : BOOLEAN, media_url : BOOLEAN]

Response(status, error) == [status |-> status, error |-> error]

\* the catch block of handleInvestigation (lines 239-266)
ErrorResponse(message) ==
    IF Includes(message, "timeout")
    THEN Response(408, "Investigation timeout")
    ELSE IF Includes(message, "not connected")
            \/ Includes(message, "not found")
    THEN Response(503, "Service unavailable")
    ELSE Response(500, "Investigation failed")

\* The handler of one request is arg: pc is where it is, pipeline the
\* promise of investigate(), timer the setTimeout of INVESTIGATION_TIMEOUT;
\* out is the list of the responses returned.

\* validation (lines 131-177): a 400 response, or on to
\* await initializeOrchestrator()
Validate ==
    /\ arg.pc = "received"
    /\ IF arg.body.type = "" \/ ~arg.body.content
       THEN /\ out' = Append(out, Response(400, "Invalid request format"))
            /\ arg' = [arg EXCEPT !.pc = "done"]
       ELSE IF arg.body.type = "other"
       THEN /\ out' = Append(out, Response(400, "Invalid investigation type"))
            /\ arg' = [arg EXCEPT !.pc = "done"]
       ELSE IF \/ arg.body.type = "fact_check" /\ ~arg.body.claim
               \/ arg.body.type = "media_analysis" /\ ~arg.body.media_url
       THEN /\ out' = Append(out, Response(400, "Missing required field"))
            /\ arg' = [arg EXCEPT !.pc = "done"]
       ELSE /\ out' = out
            /\ arg' = [arg EXCEPT !.pc = "initializing"]
    /\ UNCHANGED <<cvars, ovars>>

\* initializeOrchestrator() resolves; investigate() is called and the
\* timer is set (lines 180-214)
StartRace ==
    /\ arg.pc = "initializing"
    /\ arg' = [arg EXCEPT !.pc = "racing", !.pipeline = "pending",
                          !.timer = "set"]
    /\ UNCHANGED <<out, cvars, ovars>>

\* the history after the pipeline of the request has run to its end: each
\* pipeline stores its result just before it returns it (orchestrator.ts,
\* lines 210-211, 358-359, 448-449)
StoredHistory ==
    [id \in {IdOf(1, "single")} |->
        Result(id, "UNVERIFIED", Pct(50), <<>>, <<>>, NullForensic,
               NoArtifact)]

\* investigate() resolves, its result stored: the race, if still undecided,
\* resolves with the result (lines 216-237)
PipelineReturns ==
    /\ arg.pipeline = "pending"
    /\ IF arg.pc = "racing"
       THEN /\ out' = Append(out, Response(200, "none"))
            /\ arg' = [arg EXCEPT !.pc = "done", !.pipeline = "returned"]
       ELSE /\ out' = out
            /\ arg' = [arg EXCEPT !.pipeline = "returned"]
    /\ investigationHistory' = StoredHistory
    /\ UNCHANGED <<cvars, orchClients, inv, ret>>

\* investigate() rejects: the race, if still undecided, rejects with the
\* error, which the catch block turns into a response
PipelineThrows(message) ==
    /\ arg.pipeline = "pending"
    /\ IF arg.pc = "racing"
       THEN /\ out' = Append(out, ErrorResponse(message))
            /\ arg' = [arg EXCEPT !.pc = "done", !.pipeline = "failed"]
       ELSE /\ out' = out
            /\ arg' = [arg EXCEPT !.pipeline = "failed"]
    /\ UNCHANGED <<cvars, ovars>>

\* the timer fires (lines 210-214): the race, if still undecided, rejects
\* with the timeout error
TimerFires ==
    /\ arg.timer = "set"
    /\ IF arg.pc = "racing"
       THEN /\ out' = Append(out, ErrorResponse(TimeoutError))
            /\ arg' = [arg EXCEPT !.pc = "done", !.timer = "fired"]
       ELSE /\ out' = out
            /\ arg' = [arg EXCEPT !.timer = "late"]
    /\ UNCHANGED <<cvars, ovars>>

InitRoute ==
    /\ configs = {}
    /\ clients = [n \in Names |-> 0]
    /\ cl = <<>>
    /\ procs = <<>>
    /\ tasks = {}
    /\ cur = Idle
    /\ ev = Ev("init", 0, "ok")
    /\ orchClients = {}
    /\ investigationHistory = <<>>
    /\ inv = IdleInv(0)
    /\ ret = NoValue("new", "returned", "none")
    /\ \E body \in Bodies :
          arg = [pc |-> "received", body |-> body, pipeline |-> "none",
                 timer |-> "none"]
    /\ out = <<>>

NextRoute ==
    \/ Validate
    \/ StartRace
    \/ PipelineReturns
    \/ \E message \in PipelineErrors : PipelineThrows(message)
    \/ TimerFires

SpecRoute == InitRoute /\ [][NextRoute]_vars

----------------------------------------------------------------------------
(* synthesizeCombinedVerdict on its own *)

\* what performFullInvestigation can hold in mediaResult and
\* factCheckResult at line 402: null (<<>>) for a stage that did not run,
\* else the result of the stage; not both null (lines 368-370)
SubResults ==
    {<<>>} \cup {<<[verdict |-> v, confidence |-> c]>> :
                    v \in {"TRUE", "FALSE", "MIXED", "UNVERIFIED"},
                    c \in {Pct(50), Pct(90)}}

CombinedArgs ==
    {a \in [mediaResult : SubResults, factCheckResult : SubResults] :
        a.mediaResult # <<>> \/ a.factCheckResult # <<>>}

CallSynthesizeCombinedVerdict ==
    /\ out = <<>>
    /\ out' = <<SynthesizeCombinedVerdict(arg.mediaResult,
                                          arg.factCheckResult)>>
    /\ UNCHANGED <<arg, cvars, ovars>>

InitCombined ==
    /\ configs = {}
    /\ clients = [n \in Names |-> 0]
    /\ cl = <<>>
    /\ procs = <<>>
    /\ tasks = {}
    /\ cur = Idle
    /\ ev = Ev("init", 0, "ok")
    /\ orchClients = {}
    /\ investigationHistory = <<>>
    /\ inv = IdleInv(0)
    /\ ret = NoValue("new", "returned", "none")
    /\ arg \in CombinedArgs
    /\ out = <<>>

NextCombined == CallSynthesizeCombinedVerdict

SpecCombined == InitCombined /\ [][NextCombined]_vars

----------------------------------------------------------------------------
(* initializeOrchestrator (src/app/api/agent/route.ts, lines 12-91) *)

\* the requests that call initializeOrchestrator
MaxRequests == 3

\* arg holds the module's globals: orchestrator and initializationPromise
\* (0 for null, else the number of the initialization that made them),
\* managers (the McpClientManager objects created so far), connectAlls (the
\* connectAll calls made so far) and promises (the state of the promise of
\* each initialization).  out lists the callers: the promise each was
\* handed (0: none, the orchestrator was there) and what it has received.
Globals(orchestrator, initializationPromise, managers, connectAlls, promises) ==
    [orchestrator |-> orchestrator,
     initializationPromise |-> initializationPromise,
     managers |-> managers, connectAlls |-> connectAlls,
     promises |-> promises]

Caller(awaits, got, value) == [awaits |-> awaits, got |-> got, value |-> value]

\* A request calls initializeOrchestrator().  When it starts a new
\* initialization, the async function runs up to its first await before
\* its promise is assigned to initializationPromise: if a statement before
\* `await clientManager.connectAll()` throws (throws; process.cwd() can),
\* the catch block has already run when the assignment stores the rejected
\* promise.
CallInitialize(throws) ==
    LET p == Len(arg.promises) + 1 IN
    /\ Len(out) < MaxRequests
    /\ IF arg.orchestrator # 0
       THEN /\ out' = Append(out, Caller(0, "orchestrator", arg.orchestrator))
            /\ arg' = arg
       ELSE IF arg.initializationPromise # 0
       THEN /\ out' = Append(out, Caller(arg.initializationPromise, "none", 0))
            /\ arg' = arg
       ELSE /\ out' = Append(out, Caller(p, "none", 0))
            /\ arg' = IF throws
                      THEN Globals(0, p, arg.managers + 1, arg.connectAlls,
                                   Append(arg.promises, "rejected"))
                      ELSE Globals(0, p, arg.managers + 1,
                                   arg.connectAlls + 1,
                                   Append(arg.promises, "pending"))
    /\ UNCHANGED <<cvars, ovars>>

\* connectAll() of initialization p has settled and the function goes on:
\* it creates the orchestrator and returns it, or a statement throws and
\* the catch block resets the globals (lines 82-87)
InitializeSettles(p, throws) ==
    /\ p \in DOMAIN arg.promises
    /\ arg.promises[p] = "pending"
    /\ arg' = IF throws
              THEN [arg EXCEPT !.orchestrator = 0,
                               !.initializationPromise = 0,
                               !.promises[p] = "rejected"]
              ELSE [arg EXCEPT !.orchestrator = p,
                               !.promises[p] = "resolved"]
    /\ UNCHANGED <<out, cvars, ovars>>

\* the await of caller r on the promise it was handed completes
CallerResumes(r) ==
    /\ r \in DOMAIN out
    /\ out[r].got = "none"
    /\ arg.promises[out[r].awaits] # "pending"
    /\ out' = [out EXCEPT ![r] =
                 IF arg.promises[out[r].awaits] = "resolved"
                 THEN Caller(@.awaits, "orchestrator", @.awaits)
                 ELSE Caller(@.awaits, "error", 0)]
    /\ UNCHANGED <<arg, cvars, ovars>>

InitInitialize ==
    /\ configs = {}
    /\ clients = [n \in Names |-> 0]
    /\ cl = <<>>
    /\ procs = <<>>
    /\ tasks = {}
    /\ cur = Idle
    /\ ev = Ev("init", 0, "ok")
    /\ orchClients = {}
    /\ investigationHistory = <<>>
    /\ inv = IdleInv(0)
    /\ ret = NoValue("new", "returned", "none")
    /\ arg = Globals(0, 0, 0, 0, <<>>)
    /\ out = <<>>

NextInitialize ==
    \/ \E throws \in BOOLEAN : CallInitialize(throws)
    \/ \E p \in 1..MaxRequests, throws \in BOOLEAN : InitializeSettles(p, throws)
    \/ \E r \in 1..MaxRequests : CallerResumes(r)

SpecInitialize == InitInitialize /\ [][NextInitialize]_vars

----------------------------------------------------------------------------
(* Properties *)

\* a subprocess that runs and has been sent no signal
Live(p) == procs[p].alive /\ ~Killed(procs[p])
LiveFor(n) == {p \in Pr : Live(p) /\ cl[procs[p].owner].name = n}
RegisteredNames == {n \in Names : Registered(n)}
\* the state close() leaves a client in
Closed(c) ==
    ~cl[c].isConnected /\ cl[c].serverProcess = 0 /\ ~cl[c].transport

\* C1: whenever no registry operation is in flight, every config name has at
\* most one live subprocess (running, no termination signal sent to it).
C1_OneLiveProcessPerName ==
    IsIdle => \A n \in Names : Cardinality(LiveFor(n)) <= 1

\* C2: when all tasks of connectAll have settled (connectAll returns), and
\* none of the connections it made has dropped since, the registry holds
\* exactly k-m connections (k configs, m failed), each Connected.
C2_ConnectAllCount ==
    (/\ cur.kind = "connectAll" /\ tasks = {}
     /\ \A n \in configs \ cur.failed : cl[clients[n]].isConnected)
    => /\ Cardinality(RegisteredNames) =
             Cardinality(configs) - Cardinality(cur.failed)
       /\ \A n \in RegisteredNames : cl[clients[n]].isConnected

\* C3: callTool on a client that is not connected fails at once with
\* Disconnected: no request is issued, nothing stays pending, no state changes.
C3_InvokeWhenDisconnected ==
    [][\A c \in Cl :
         (ev'.op = "callTool" /\ ev'.c = c /\ ~cl[c].isConnected)
         => /\ ev'.res = "Disconnected"
            /\ UNCHANGED <<cl, procs, tasks, cur>>]_vars

\* callTool refused on a client whose subprocess died under it
C3_Witness ==
    \E c \in Cl : /\ ev = Ev("callTool", c, "Disconnected")
                  /\ cl[c].serverProcess # 0
                  /\ Tool \in cl[c].availableTools

C5_TransportFailureDisconnects ==
    (ev.op = "callToolDone" /\ ev.res = "transportError")
    => ~cl[ev.c].isConnected

\* C6: an exit or error event of the subprocess a connected client holds
\* disconnects the client; only a successful handshake connects it again;
\* a ping started on a disconnected client returns false and a callTool
\* started on it fails with Disconnected.
C6_UnsolicitedDisconnect ==
    [][\A c \in Cl :
         /\ (ev'.op \in {"exit", "error"} /\ ev'.c = c) => ~cl'[c].isConnected
         /\ (~cl[c].isConnected /\ cl'[c].isConnected)
                => ev' = Ev("handshake", c, "ok")
         /\ (ev'.op = "ping" /\ ev'.c = c /\ ~cl[c].isConnected)
                => ev'.res = "false"
         /\ (ev'.op = "callTool" /\ ev'.c = c /\ ~cl[c].isConnected)
                => ev'.res = "Disconnected"]_vars

\* a ping refused on a client that still holds the handle of its dead process
C6_Witness ==
    \E c \in Cl : /\ ev = Ev("ping", c, "false")
                  /\ cl[c].serverProcess # 0
                  /\ ~procs[cl[c].serverProcess].alive
                  /\ cl[c].transport

\* C7: close() on a closed (or never connected) client changes nothing,
\* signals nothing, awaits nothing and succeeds; and every close() that has
\* completed leaves the client closed, so a second close is such a no-op.
C7_CloseIdempotent ==
    [][\A c \in Cl :
         /\ (ev'.op = "close" /\ ev'.c = c /\ Closed(c))
                => /\ ev'.res = "closed"
                   /\ UNCHANGED <<cl, procs, tasks, cur>>
         /\ (ev'.op \in {"close", "closeDone"} /\ ev'.c = c
                /\ ev'.res = "closed") => Closed(c)']_vars

\* close() returned on a client that was never connected
C7_Witness ==
    \E c \in Cl : ev = Ev("close", c, "closed") /\ procs = <<>>

\* C8: ping never throws and leaves the client alone: each step of ping
\* keeps every field of every client (the flag, the handle, the catalog) and
\* every process, and ends with a boolean, false when started disconnected.
C8_PingFrame ==
    [][ev'.op \in {"ping", "pingDone"}
         => /\ UNCHANGED <<cl, procs, configs, clients>>
            /\ ev'.res \in {"true", "false", "requested"}
            /\ ev'.op = "pingDone" => ev'.res \in {"true", "false"}
            /\ (ev'.op = "ping" /\ ~cl[ev'.c].isConnected)
                   => ev'.res = "false"]_vars

\* a ping whose round trip failed, with the client still flagged connected
C8_Witness ==
    /\ ev.op = "pingDone" /\ ev.res = "false"
    /\ cl[ev.c].isConnected
    /\ Tool \in cl[ev.c].availableTools

\* C9: a tools/call request is never still outstanding once the connection's
\* configured timeout has elapsed.
C9_InvokeWithinTimeout ==
    \A t \in tasks : t.pc = "calling" => ~t.elapsed

\* C10: connectServer and reconnectServer go ahead only for a configured
\* name; for any other name they fail and leave configs, the client map,
\* every client and every process as they were.
C10_NoConfigNoEffect ==
    [][(IsIdle /\ ev'.op \in {"connectServer", "reconnectServer"})
         => IF ev'.res = "noConfig"
            THEN /\ ev'.n \notin configs
                 /\ UNCHANGED <<configs, clients, cl, procs, tasks, cur>>
            ELSE cl'[ev'.c].name \in configs]_vars

\* the call failed for want of a config while another name was connected
C10_Witness ==
    /\ ev.res = "noConfig"
    /\ \E n \in RegisteredNames : cl[clients[n]].isConnected

\* C11: healthCheck never throws; the map it returns has exactly one boolean
\* entry for every connection the registry held when it was called and none
\* for any other name; an entry becomes true only by the step in which that
\* connection's ping was answered; and a ping that settles writes the entry
\* of its own name only, entries once written staying as they are.
C11_HealthCheckMap ==
    [][/\ ev'.op = "healthCheck" => ev'.res \in {"pending", "returned"}
       /\ (ev'.op = "healthCheck" /\ ev'.res = "pending") =>
             \A n \in Names :
                Registered(n) <=> \/ cur'.results[n] = "false"
                                  \/ \E t \in tasks' : t.c = clients[n]
       /\ (ev'.op = "healthCheck" /\ ev'.res = "returned") =>
             \A n \in Names :
                IF Registered(n) THEN ev'.results[n] \in {"true", "false"}
                ELSE ev'.results[n] = "none"
       /\ \A n \in Names :
             /\ (cur'.results[n] = "true" /\ cur.results[n] # "true") =>
                   /\ ev'.op = "pingDone" /\ ev'.res = "true"
                   /\ clients[n] = ev'.c
                   /\ cur.results[n] = "none"
             /\ (cur.kind = "healthCheck" /\ cur'.kind = "healthCheck"
                    /\ cur.results[n] # "none") =>
                   cur'.results[n] = cur.results[n]
             /\ (cur.kind = "healthCheck" /\ ev'.op = "pingDone"
                    /\ clients[n] # ev'.c) =>
                   cur'.results[n] = cur.results[n]]_vars

\* healthCheck returned one healthy and one failed connection
C11_Witness ==
    /\ ev.op = "healthCheck" /\ ev.res = "returned"
    /\ \E n, m \in Names : ev.results[n] = "true" /\ ev.results[m] = "false"

\* C12: closeAll never fails, and in the step in which it returns every
\* client that was in the registry is closed (disconnected, no handle, no
\* transport), no subprocess of such a client is still running without a
\* termination signal, and the registry holds no connection.
C12_CloseAllCloses ==
    [][/\ ev'.op = "closeAll" => ev'.res \in {"pending", "returned"}
       /\ (ev'.op = "closeAll" /\ ev'.res = "returned") =>
             /\ \A n \in Names : clients'[n] = 0
             /\ \A n \in RegisteredNames :
                   /\ ~cl'[clients[n]].isConnected
                   /\ cl'[clients[n]].serverProcess = 0
                   /\ ~cl'[clients[n]].transport
                   /\ \A p \in Pr : procs[p].owner = clients[n]
                                        => ~procs'[p].alive \/ Killed(procs'[p])
      ]_vars

\* closeAll returned having closed two connections, one of them through a
\* client.close() it had to await and one whose subprocess was still running
C12_Witness ==
    /\ ev.op = "closeAll" /\ ev.res = "returned"
    /\ \E p, q \in Pr : /\ p # q
                         /\ procs[p].alive /\ procs[p].sig = "TERM"
                         /\ procs[q].sig = "TERM"

\* C13: whatever registry calls overlapped, once all of them have completed
\* every live subprocess (running, not signalled) is the subprocess of the
\* client registered under its name: none is left that the registry no
\* longer references.
C13_SerializedPerName ==
    (IsIdle /\ tasks = {}) =>
        \A p \in Pr :
            Live(p) => /\ clients[cl[procs[p].owner].name] = procs[p].owner
                       /\ cl[procs[p].owner].serverProcess = p

\* C14: an investigation of a request with a claim does not fail because
\* the fact-check server is not connected or its check_claim call failed;
\* it returns an Investigation whose evidence chain holds one system item
\* (of confidence 0.1) reporting that failure.
C14_FactCheckFailureTolerated ==
    (ret.op = "investigate" /\ ret.status # "pending" /\ ret.req.claim) =>
        /\ ret.cause \notin {"check_claim", "factcheckUnavailable"}
        /\ "factcheck" \notin orchClients =>
              /\ ret.status = "returned"
              /\ Cardinality({i \in DOMAIN ret.value[1].evidence_chain :
                     ret.value[1].evidence_chain[i].type = "system"}) = 1

\* C15: when the forensic call of an investigation with media fails, the
\* investigation is not aborted by it and the forensic_analysis of its
\* result is the neutral result (probability 0.5, no techniques, an error
\* note), not an absent one.
C15_ForensicFailureNeutral ==
    (ret.op = "investigate" /\ "forensic" \in ret.failures) =>
        /\ ret.cause # "forensic"
        /\ ret.status = "returned" =>
              ret.value[1].forensic_analysis = Analysis(Pct(50))

C17_FailureStoresNothing ==
    (ret.op = "investigate" /\ ret.status = "failed") =>
        investigationHistory = ret.before

\* C18: an investigate() call that succeeds adds exactly one entry to the
\* history, keyed by the id of the Investigation it returns, and no step
\* overwrites, changes or removes an entry that is already stored.
C18_OneEntryPerInvestigation ==
    [][/\ (ret'.op = "investigate" /\ ret'.status = "returned") =>
            LET id == ret'.value[1].id IN
            /\ id \notin DOMAIN ret'.before
            /\ DOMAIN investigationHistory' = DOMAIN ret'.before \cup {id}
            /\ investigationHistory'[id] = ret'.value[1]
       /\ \A id \in DOMAIN investigationHistory :
            /\ id \in DOMAIN investigationHistory'
            /\ investigationHistory'[id] = investigationHistory[id]]_vars

\* C19: the evidence_chain of a returned Investigation lists the evidence
\* items in the order the pipeline stages gathered them (for a full
\* investigation: without the duplicates the merge drops), whatever their
\* timestamps.
C19_GatheringOrder ==
    (ret.op = "investigate" /\ ret.status = "returned") =>
        ret.value[1].evidence_chain =
            IF ret.req.type = "full_investigation"
            THEN DeduplicateEvidence(ret.gathered)
            ELSE ret.gathered

C21_DeduplicateFirstOfPair ==
    out # <<>> =>
        LET kept == {i \in DOMAIN arg :
                        \A j \in 1..(i - 1) :
                            \/ arg[j].content # arg[i].content
                            \/ arg[j].source # arg[i].source}
            nth(k) == CHOOSE i \in kept :
                          Cardinality({j \in kept : j < i}) = k - 1
        IN  /\ Len(out[1]) = Cardinality(kept)
            /\ \A k \in 1..Cardinality(kept) : out[1][k] = arg[nth(k)]
            /\ DeduplicateEvidence(out[1]) = out[1]

\* C22: the verdict and the confidence follow the weighted-ratio rule.
\* totalWeight is the sum of the item confidences; a fact_check item adds
\* its confidence to falseScore when its content says false and to
\* trueScore when it says true; a forensic item adds confidence times
\* tampering probability to falseScore when that probability is above 0.7.
\* totalWeight 0 gives UNVERIFIED/0.5; else falseRatio > 0.6 gives FALSE
\* with min(falseRatio, 0.95); else trueRatio > 0.6 gives TRUE with
\* min(trueRatio, 0.95); else both ratios > 0.3 give MIXED with
\* min((trueRatio + falseRatio) / 2, 0.8); else UNVERIFIED/0.5.
\* (Scores are multiplied by One: ratio = score / (totalWeight * One).)
C22_WeightedRatioRule ==
    out # <<>> =>
        LET e == arg.evidence
            p == arg.forensicAnalysis.tampering_probability
            total == One * SumSeq([i \in DOMAIN e |-> e[i].confidence])
            false == SumSeq([i \in DOMAIN e |->
                        IF e[i].type = "fact_check"
                           /\ e[i].content = "rated false"
                        THEN One * e[i].confidence
                        ELSE IF e[i].type = "forensic" /\ p > Pct(70)
                        THEN e[i].confidence * p
                        ELSE 0])
            true == SumSeq([i \in DOMAIN e |->
                        IF e[i].type = "fact_check"
                           /\ e[i].content = "rated true"
                        THEN One * e[i].confidence
                        ELSE 0])
            verdict == out[1].verdict
            confidence == out[1].confidence
        IN  IF total = 0
            THEN verdict = "UNVERIFIED" /\ confidence = Pct(50)
            ELSE IF 10 * false > 6 * total
            THEN /\ verdict = "FALSE"
                 /\ IF 100 * false <= 95 * total
                    THEN confidence * total = One * false
                    ELSE confidence = Pct(95)
            ELSE IF 10 * true > 6 * total
            THEN /\ verdict = "TRUE"
                 /\ IF 100 * true <= 95 * total
                    THEN confidence * total = One * true
                    ELSE confidence = Pct(95)
            ELSE IF 10 * true > 3 * total /\ 10 * false > 3 * total
            THEN /\ verdict = "MIXED"
                 /\ IF 10 * (true + false) <= 2 * 8 * total
                    THEN 2 * confidence * total = One * (true + false)
                    ELSE confidence = Pct(80)
            ELSE verdict = "UNVERIFIED" /\ confidence = Pct(50)

\* C23: with one forensic item as the only evidence and no fact-check
\* verdict, a tampering probability p above 0.7 gives FALSE with
\* confidence min(p, 0.95) (0.8 for p = 0.8); p of 0.7 or less gives
\* UNVERIFIED with confidence 0.5.
C23_ForensicOnlyVerdict ==
    (/\ out # <<>>
     /\ arg.factCheckResult = <<>>
     /\ arg.forensicAnalysis.kind = "analysis"
     /\ arg.evidence = <<ForensicItem(arg.forensicAnalysis)>>)
    => LET p == arg.forensicAnalysis.tampering_probability IN
       IF p > Pct(70)
       THEN /\ out[1].verdict = "FALSE"
            /\ out[1].confidence = IF p <= Pct(95) THEN p ELSE Pct(95)
       ELSE /\ out[1].verdict = "UNVERIFIED"
            /\ out[1].confidence = Pct(50)

\* C24: every evidence item in the evidence chain of an Investigation has
\* a confidence between 0 and 1, whatever the tool servers replied.
C24_ConfidenceInRange ==
    \A id \in DOMAIN investigationHistory :
        \A i \in DOMAIN investigationHistory[id].evidence_chain :
            /\ investigationHistory[id].evidence_chain[i].confidence >= 0
            /\ investigationHistory[id].evidence_chain[i].confidence <= One

\* C25: the Investigation a successful investigate() stores carries a
\* signed artifact with an id, a hash and a signature, the hash and the
\* signature being those of one text: the serialization of the
\* investigation's id, verdict, confidence, evidence chain, timestamp and
\* original request.
C25_ArtifactOverCanonicalBytes ==
    (ret.op = "investigate" /\ ret.status = "returned") =>
        LET r == ret.value[1]
            b == JsonStringify([id |-> r.id, verdict |-> r.verdict,
                                confidence |-> r.confidence,
                                evidence_chain |-> r.evidence_chain,
                                timestamp |-> Now,
                                original_request |-> ret.req])
        IN  /\ r.id \in DOMAIN investigationHistory
            /\ investigationHistory[r.id] = r
            /\ r.signed_artifact.id # <<>>
            /\ r.signed_artifact.sha256 = <<ComputeSha256(b)>>
            /\ r.signed_artifact.signature = <<SignArtifact(b)>>

\* C26: exportInvestigation of the id of a returned Investigation returns
\* the stored Investigation, and the hash of the canonical serialization
\* of what was exported (id, verdict, confidence, evidence chain,
\* timestamp, and the request, whichever it was) is the hash that the
\* export carries.
C26_ExportRoundTrip ==
    (/\ ret.op = "export"
     /\ ret.asked[1] \in DOMAIN investigationHistory
     /\ ret.asked[1][2] = "")
    => /\ ret.status = "returned"
       /\ LET e == ret.value[1] IN
          /\ e.investigation = investigationHistory[ret.asked[1]]
          /\ \E req \in Requests :
                e.verification.hash =
                    <<ComputeSha256(JsonStringify(
                        [id |-> e.investigation.id,
                         verdict |-> e.investigation.verdict,
                         confidence |-> e.investigation.confidence,
                         evidence_chain |-> e.investigation.evidence_chain,
                         timestamp |-> Now,
                         original_request |-> req]))>>

\* C27: exportInvestigation of an id that is not a key of the history
\* fails with the not-found error, and no call of exportInvestigation, of
\* a known or of an unknown id, adds, removes or changes a stored
\* Investigation.
C27_ExportUnknownFails ==
    [][ret'.op = "export" =>
         /\ investigationHistory' = investigationHistory
         /\ ret'.asked[1] \notin DOMAIN investigationHistory =>
               /\ ret'.status = "failed"
               /\ ret'.cause = "notFound"
               /\ ret'.value = <<>>]_vars

\* an export of an unknown id has failed while an Investigation is stored
C27_Witness ==
    /\ ret.op = "export"
    /\ ret.status = "failed"
    /\ ret.cause = "notFound"
    /\ ret.asked[1] \notin DOMAIN investigationHistory
    /\ investigationHistory # <<>>

\* C28: a request gets at most one response; the response is the timeout
\* response only when the timer expired with the pipeline not completed,
\* and otherwise it is the pipeline's Investigation or its failure.
C28_OneResponse ==
    /\ Len(out) <= 1
    /\ \A i \in DOMAIN out :
         /\ out[i].status = 408 => arg.timer = "fired"
         /\ arg.pipeline = "returned" /\ arg.timer # "fired"
                => out[i].status = 200
         /\ arg.pipeline = "failed" /\ arg.timer # "fired"
                => out[i].status \in {500, 503}

\* C29: a subprocess that was sent the termination request by close or by
\* a failed connect and does not exit is eventually sent the forceful kill.
C29_EscalatesToKill ==
    \A p \in 1..MaxProcs :
        (p \in Pr /\ procs[p].alive /\ procs[p].sig = "TERM")
            ~> (p \in Pr /\ (~procs[p].alive \/ procs[p].sig = "KILL"))

\* C30: callTool on a connected client for a tool that its cached catalog
\* does not list fails with the tool-not-found error, sends no request and
\* leaves the connection as it was, connected; and the error is given for
\* no other call.
C30_UnknownToolFailsLocally ==
    [][ev'.op = "callTool" /\ ev'.c \in Cl
         => /\ (cl[ev'.c].isConnected /\ Tool \notin cl[ev'.c].availableTools)
                 <=> ev'.res = "ToolNotFound"
            /\ ev'.res = "ToolNotFound"
                 => /\ tasks' = tasks
                    /\ cl' = cl /\ procs' = procs
                    /\ cl'[ev'.c].isConnected]_vars

C30_Witness ==
    /\ ev.op = "callTool" /\ ev.res = "ToolNotFound"
    /\ cl[ev.c].isConnected /\ cl[ev.c].serverProcess # 0
    /\ procs[cl[ev.c].serverProcess].alive
    /\ tasks = {}

C32_EventTypeFromItemType ==
    out # <<>> =>
        LET sorted == SortByTimestamp(arg) IN
        \A i \in 1..Len(sorted) :
            out[1][i].event_type =
                CASE sorted[i].type = "forensic" -> "modification"
                  [] sorted[i].type = "reverse_image" -> "first_appearance"
                  [] sorted[i].type = "web_search" -> "spread"
                  [] sorted[i].type = "fact_check" -> "fact_check"

\* C33: an investigation calls the forensic server only for a request that
\* has media and has include_forensics set; the result of a request with
\* include_forensics false has no forensic evidence item and no
\* forensic_analysis.
C33_ForensicsOnlyOnRequest ==
    /\ inv.pc = "forensicCall"
           => inv.req.media # "none" /\ inv.req.include_forensics
    /\ (ret.op = "investigate" /\ ret.status = "returned"
           /\ ~ret.req.include_forensics)
           => /\ \A i \in DOMAIN ret.value[1].evidence_chain :
                    ret.value[1].evidence_chain[i].type # "forensic"
              /\ ret.value[1].forensic_analysis = NullForensic

\* C34: the exit of a subprocess that its client no longer holds (the
\* client was closed or has reconnected with a new subprocess) changes
\* nothing in the client; after a successful reconnect the client stays
\* connected when the previous subprocess exits.
C34_LateExitIgnored ==
    [][\A p \in Pr :
         (procs[p].alive /\ ~procs'[p].alive
            /\ cl[procs[p].owner].serverProcess # p)
             => cl'[procs[p].owner] = cl[procs[p].owner]]_vars

\* C35: in every state a client that is flagged connected holds a
\* subprocess handle and a transport.
C35_ConnectedHoldsResources ==
    \A c \in Cl :
        cl[c].isConnected => cl[c].serverProcess # 0 /\ cl[c].transport

\* C36: initialization is single-flight.  At most one initialization is in
\* progress, and a call made while one is in progress creates no registry
\* and runs no connectAll; all callers that receive an orchestrator receive
\* the same one; and a call made after a failed initialization, with no
\* orchestrator and no initialization in progress, starts a fresh one.
C36_SingleFlight ==
    [][LET Pending(g) == {p \in DOMAIN g.promises : g.promises[p] = "pending"}
           Failed(g) == {p \in DOMAIN g.promises : g.promises[p] = "rejected"}
       IN
       /\ Cardinality(Pending(arg')) <= 1
       /\ (Len(out') > Len(out) /\ Pending(arg) # {})
              => /\ arg'.managers = arg.managers
                 /\ arg'.connectAlls = arg.connectAlls
       /\ \A r1, r2 \in DOMAIN out' :
              (out'[r1].got = "orchestrator" /\ out'[r2].got = "orchestrator")
                  => out'[r1].value = out'[r2].value
       /\ (Len(out') > Len(out) /\ arg.orchestrator = 0
              /\ Pending(arg) = {} /\ Failed(arg) # {})
              => arg'.managers = arg.managers + 1]_vars

\* C37: the history holds only investigations whose result was returned to
\* the caller: nothing is stored for a request that was answered with the
\* timeout response.
C37_TimedOutNotStored ==
    DOMAIN investigationHistory # {}
        => /\ \E i \in DOMAIN out : out[i].status = 200
           /\ \A i \in DOMAIN out : out[i].status # 408

\* C38: the combined verdict is TRUE whenever every stage that ran returned
\* TRUE, and it is FALSE exactly when a stage returned FALSE.
C38_CombinedVerdict ==
    out # <<>> =>
        LET verdicts == {r[1].verdict :
                            r \in {arg.mediaResult, arg.factCheckResult}
                                     \ {<<>>}}
        IN  /\ verdicts = {"TRUE"} => out[1] = "TRUE"
            /\ out[1] = "FALSE" <=> "FALSE" \in verdicts

\* C39: deduplicateEvidence merges two items only when their contents are
\* equal and their sources are equal: every item whose (content, source)
\* pair differs from that of every earlier item is in the result, which
\* therefore has one item for every pair of the input.
C39_MergesEqualPairsOnly ==
    out # <<>> =>
        /\ \A i \in DOMAIN arg :
              (\A j \in 1..(i - 1) :
                  \/ arg[j].content # arg[i].content
                  \/ arg[j].source # arg[i].source)
                  => \E k \in DOMAIN out[1] : out[1][k] = arg[i]
        /\ Len(out[1]) =
              Cardinality({<<arg[i].content, arg[i].source>> : i \in DOMAIN arg})
====
